---- MODULE Spec2Model ----
(***************************************************************************)
(* A model of the packedit header codecs (checksum, Ethernet, ARP, IPv4,   *)
(* IPv6, TCP, UDP).  The library is a set of pure, synchronous functions   *)
(* over byte buffers and packet structures, so the state of the model is   *)
(* one call: the operation invoked last, its argument, what it returned    *)
(* (a value, or the panic that ended it) and, for a call made on the       *)
(* result of the previous call, the argument of that previous call.        *)
(*                                                                         *)
(* Bytes are the integers 0..255; byte buffers are sequences, indexed from *)
(* 0 through At and Slice as the Rust source indexes them.                 *)
(***************************************************************************)
EXTENDS Integers, Sequences, FiniteSets, TLC

VARIABLES
    op,     \* the operation invoked last ("new" before any call)
    arg,    \* its argument: a byte buffer or a packet structure
    ret,    \* its outcome: [status |-> "ok", val |-> ...] or a panic
    orig    \* the argument of the call before it, when this call was made
            \* on that call's result, as Ok(argument); None otherwise

vars == <<op, arg, ret, orig>>

None == [status |-> "none"]

(***************************************************************************)
(* Bounds of the model.                                                    *)
(***************************************************************************)
\* longest buffer handed to checksum
MaxLen == 6
\* longest option list of a TCP or IPv4 packet built from scratch
MaxOpts == 2
\* longest payload of a packet built from scratch
MaxPayload == 1
\* longest tail of wire bytes after a fixed header handed to a decoder
MaxTail == 4

(***************************************************************************)
(* Outcomes.  The source reports every failure by panicking; the model     *)
(* keeps apart the panics the source raises itself after testing a         *)
(* condition (panic!) and those the language raises under it.              *)
(***************************************************************************)
Ok(v) == [status |-> "ok", val |-> v]
\* panic!("Length of bytes is less than ..."): an explicit length check
PanicLength == [status |-> "panic_length"]
\* panic!("Its not an Ipv4 packet!"): an explicit version check
PanicVersion == [status |-> "panic_version"]
\* panic! of a from_bits / from_value match, or of a fixed ARP field test
PanicValue == [status |-> "panic_value"]
\* index or slice range out of bounds, raised by the language
PanicIndex == [status |-> "panic_index"]
\* copy_from_slice on slices of different lengths, raised by the library
PanicCopy == [status |-> "panic_copy"]
\* arithmetic overflow (debug build) or the capacity overflow it leads to
PanicArith == [status |-> "panic_arith"]
\* unimplemented!()
PanicUnimplemented == [status |-> "panic_unimplemented"]
\* panic!("'source_ip' and 'destination_ip' must have same type!")
PanicArgument == [status |-> "panic_argument"]

IsOk(r) == r.status = "ok"

(***************************************************************************)
(* Bytes, words and slices.                                                *)
(***************************************************************************)
Byte == 0..255

\* 2^n, n <= 16
Pow2(n) ==
    <<1, 2, 4, 8, 16, 32, 64, 128, 256, 512, 1024, 2048, 4096, 8192, 16384,
      32768, 65536>>[n + 1]

\* a >> n
Shr(a, n) == a \div Pow2(n)
\* (a << n) on a u8: the bits shifted out are lost
Shl8(a, n) == (a * Pow2(n)) % 256

\* bit i of a
Bit(a, i) == (a \div Pow2(i)) % 2

\* a & b, on u8
BitAnd(a, b) ==
    LET x == a
        y == b
        and[i \in 0..8] ==
            IF i = 8 THEN 0
            ELSE Bit(x, i) * Bit(y, i) * Pow2(i) + and[i + 1]
    IN  and[0]

\* a | b, on u8
BitOr(a, b) ==
    LET x == a
        y == b
        or[i \in 0..8] ==
            IF i = 8 THEN 0
            ELSE (IF Bit(x, i) + Bit(y, i) > 0 THEN Pow2(i) ELSE 0) + or[i + 1]
    IN  or[0]

\* bytes[i], i counted from 0; the caller has checked i < Len(bytes)
At(bytes, i) == bytes[i + 1]
\* bytes[a..b], the caller has checked a <= b <= Len(bytes)
Slice(bytes, a, b) == SubSeq(bytes, a + 1, b)
\* whether bytes[a..b] is a legal range of the buffer
InRange(bytes, a, b) == a <= b /\ b <= Len(bytes)

\* u16::from_be_bytes([hi, lo])
u16_from_be_bytes(hi, lo) == hi * 256 + lo
\* u16::to_be_bytes
u16_to_be_bytes(v) == <<v \div 256, v % 256>>
\* A u32 is kept as its two 16-bit halves <<high, low>>.
U32(hi, lo) == <<hi, lo>>
\* u32::from_be_bytes([a, b, c, d])
u32_from_be_bytes(a, b, c, d) == U32(a * 256 + b, c * 256 + d)
\* u32::to_be_bytes
u32_to_be_bytes(v) == <<v[1] \div 256, v[1] % 256, v[2] \div 256, v[2] % 256>>
\* a + b on u32, b a u16 widened (`as u32`): wrapping, as the release build
u32_add_u16(a, b) ==
    U32((a[1] + (a[2] + b) \div 65536) % 65536, (a[2] + b) % 65536)

\* vec![b; n]
Repeat(b, n) == [i \in 1..n |-> b]

RECURSIVE Concat(_)
\* the concatenation of a sequence of byte sequences
Concat(ss) == IF ss = <<>> THEN <<>> ELSE Head(ss) \o Concat(Tail(ss))

\* all sequences over S of length at most n
SeqsUpTo(S, n) == UNION {[1..k -> S] : k \in 0..n}

(***************************************************************************)
(* util.rs: the Internet checksum.                                         *)
(***************************************************************************)
RECURSIVE SumWords(_, _)
\* for word in bytes.chunks(2) { sum += u16::from_be_bytes(word) as u32 }
SumWords(bytes, sum) ==
    IF bytes = <<>> THEN sum
    ELSE SumWords(SubSeq(bytes, 3, Len(bytes)),
                  u32_add_u16(sum, u16_from_be_bytes(bytes[1], bytes[2])))

\* sum > 0xFFFF
Above16(sum) == sum[1] > 0

\* (sum >> 16) + (sum & 0xFFFF)
FoldStep(sum) == u32_add_u16(U32(0, sum[1]), sum[2])

\* a fold that is an `if` instead of the `while`
FoldOnce(sum) == IF Above16(sum) THEN FoldStep(sum) ELSE sum

RECURSIVE Fold(_)
\* while sum > 0xFFFF { sum = (sum >> 16) + (sum & 0xFFFF) }
Fold(sum) == IF Above16(sum) THEN Fold(FoldStep(sum)) ELSE sum

\* a complement step that is left out
NotAsU16Missing(sum) == sum[2]

\* !sum as u16
NotAsU16(sum) == 65535 - sum[2]

\* if bytes.len() % 2 == 1 { bytes.push(0) }
PadEven(bytes) == IF Len(bytes) % 2 = 1 THEN Append(bytes, 0) ELSE bytes

checksum(bytes) == NotAsU16(Fold(SumWords(PadEven(bytes), U32(0, 0))))

(***************************************************************************)
(* Writes into a buffer.  packet[lo..hi].copy_from_slice(src) panics when  *)
(* the range is not of the buffer or is not as long as src; packet[i] = v  *)
(* is the write <<i, i + 1, <<v>>>>.  ApplyWrites makes a function's       *)
(* writes in the order of the source and stops at the first panic.         *)
(***************************************************************************)
copy_from_slice(packet, lo, hi, src) ==
    IF ~InRange(packet, lo, hi) THEN PanicIndex
    ELSE IF hi - lo # Len(src) THEN PanicCopy
    ELSE Ok(Slice(packet, 0, lo) \o src \o Slice(packet, hi, Len(packet)))

RECURSIVE ApplyWrites(_, _)
ApplyWrites(packet, writes) ==
    IF writes = <<>> THEN Ok(packet)
    ELSE LET w == Head(writes)
             r == copy_from_slice(packet, w[1], w[2], w[3])
         IN  IF IsOk(r) THEN ApplyWrites(r.val, Tail(writes)) ELSE r

\* `b as u8` of a bool
BoolU8(b) == IF b THEN 1 ELSE 0

(***************************************************************************)
(* ethernet.rs                                                             *)
(***************************************************************************)
\* MacAddress::from_slice of ethernet.rs
Eth_MacAddress_from_slice(bytes) ==
    IF Len(bytes) < 6 THEN PanicLength
    ELSE Ok([bytes |-> <<At(bytes, 0), At(bytes, 1), At(bytes, 2),
                         At(bytes, 3), At(bytes, 4), At(bytes, 5)>>])

\* the least length EthernetPacket::from_bytes accepts
EthernetMinLen == 15

EthernetPacket_from_bytes(bytes) ==
    IF Len(bytes) < EthernetMinLen THEN PanicLength
    ELSE LET destination == Eth_MacAddress_from_slice(Slice(bytes, 0, 6))
             source == Eth_MacAddress_from_slice(Slice(bytes, 6, 12))
         IN  IF ~IsOk(destination) THEN destination
             ELSE IF ~IsOk(source) THEN source
             ELSE Ok([destination |-> destination.val,
                      source |-> source.val,
                      protocol |-> u16_from_be_bytes(At(bytes, 12), At(bytes, 13)),
                      payload |-> Slice(bytes, 14, Len(bytes))])

(***************************************************************************)
(* udp.rs                                                                  *)
(***************************************************************************)
\* The struct literal reads bytes[0] .. bytes[7] in order, unchecked.
UdpPacket_from_bytes(bytes) ==
    IF \E i \in 0..7 : i >= Len(bytes) THEN PanicIndex
    ELSE Ok([source |-> u16_from_be_bytes(At(bytes, 0), At(bytes, 1)),
             destination |-> u16_from_be_bytes(At(bytes, 2), At(bytes, 3)),
             length |-> u16_from_be_bytes(At(bytes, 4), At(bytes, 5)),
             checksum |-> u16_from_be_bytes(At(bytes, 6), At(bytes, 7)),
             payload |-> Slice(bytes, 8, Len(bytes))])

UdpPacket_header_to_bytes(p) ==
    Concat(<<u16_to_be_bytes(p.source), u16_to_be_bytes(p.destination),
             u16_to_be_bytes(p.length), u16_to_be_bytes(p.checksum)>>)

UdpPacket_to_bytes(p) == UdpPacket_header_to_bytes(p) \o p.payload

(***************************************************************************)
(* arp.rs.  The feature `advanced-arp` selects one of two builds of the    *)
(* ARP codec: "fixed" (the feature off) and "advanced".                    *)
(***************************************************************************)
\* MacAddress::from_slice of util.rs, which arp.rs uses
MacAddress_from_slice(bytes) ==
    IF Len(bytes) < 6 THEN PanicLength
    ELSE LET r == copy_from_slice(Repeat(0, 6), 0, 6, bytes)
         IN  IF IsOk(r) THEN Ok([bytes |-> r.val]) ELSE r

\* MacAddress::to_bytes
MacAddress_to_bytes(mac) == mac.bytes

\* The variants of ArpOperation; value is the u16 of Other(value) and 0 in
\* the variants that carry none.
ArpOperation(variant) == [variant |-> variant, value |-> 0]
Other(value) == [variant |-> "Other", value |-> value]

\* ArpOperation::from_value, the feature off
ArpOperation_from_value_fixed(value) ==
    CASE value = 1 -> Ok(ArpOperation("Request"))
      [] value = 2 -> Ok(ArpOperation("Reply"))
      [] value = 3 -> Ok(ArpOperation("RarpRequest"))
      [] value = 4 -> Ok(ArpOperation("RarpReply"))
      [] OTHER -> PanicValue

\* ArpOperation::from_value, the feature on
ArpOperation_from_value_advanced(value) ==
    CASE value = 1 -> Ok(ArpOperation("Request"))
      [] value = 2 -> Ok(ArpOperation("Reply"))
      [] value = 3 -> Ok(ArpOperation("RarpRequest"))
      [] value = 4 -> Ok(ArpOperation("RarpReply"))
      [] value = 8 -> Ok(ArpOperation("InArpRequest"))
      [] value = 9 -> Ok(ArpOperation("InArpReply"))
      [] OTHER -> Ok(Other(value))

ArpOperation_to_value(operation) ==
    CASE operation.variant = "Request" -> 1
      [] operation.variant = "Reply" -> 2
      [] operation.variant = "RarpRequest" -> 3
      [] operation.variant = "RarpReply" -> 4
      [] operation.variant = "InArpRequest" -> 8
      [] operation.variant = "InArpReply" -> 9
      [] operation.variant = "Other" -> operation.value

\* ArpPacket::from_bytes, the feature off
ArpPacket_from_bytes_fixed(bytes) ==
    IF Len(bytes) <= 7 THEN PanicIndex
    ELSE LET operation == ArpOperation_from_value_fixed(
                              u16_from_be_bytes(At(bytes, 6), At(bytes, 7)))
         IN
         IF ~IsOk(operation) THEN operation
         ELSE IF u16_from_be_bytes(At(bytes, 0), At(bytes, 1)) # 1 THEN PanicValue
         ELSE IF u16_from_be_bytes(At(bytes, 2), At(bytes, 3)) # 2048 THEN PanicValue
         ELSE IF At(bytes, 4) # 6 THEN PanicValue
         ELSE IF At(bytes, 5) # 4 THEN PanicValue
         ELSE IF ~InRange(bytes, 8, 14) THEN PanicIndex
         ELSE LET sender_mac == MacAddress_from_slice(Slice(bytes, 8, 14)) IN
         IF ~IsOk(sender_mac) THEN sender_mac
         ELSE IF \E i \in 14..17 : i >= Len(bytes) THEN PanicIndex
         ELSE IF ~InRange(bytes, 18, 24) THEN PanicIndex
         ELSE LET target_mac == MacAddress_from_slice(Slice(bytes, 18, 24)) IN
         IF ~IsOk(target_mac) THEN target_mac
         ELSE IF \E i \in 24..27 : i >= Len(bytes) THEN PanicIndex
         ELSE Ok([operation |-> operation.val,
                  sender_mac |-> sender_mac.val,
                  sender_ip |-> Slice(bytes, 14, 18),
                  target_mac |-> target_mac.val,
                  target_ip |-> Slice(bytes, 24, 28)])

\* a header_to_bytes that appends each protocol address before the hardware
\* address of its side
ArpPacket_header_to_bytes_ip_first(p) ==
    Ok(<<0, 1, 8, 0, 6, 4>> \o u16_to_be_bytes(ArpOperation_to_value(p.operation))
           \o p.sender_ip \o MacAddress_to_bytes(p.sender_mac)
           \o p.target_ip \o MacAddress_to_bytes(p.target_mac))

\* ArpPacket::header_to_bytes, the feature off
ArpPacket_header_to_bytes_fixed(p) ==
    LET r == ApplyWrites(Repeat(0, 8),
                 << <<6, 8, u16_to_be_bytes(ArpOperation_to_value(p.operation))>>,
                    <<0, 1, <<0>>>>, <<1, 2, <<1>>>>, <<2, 3, <<8>>>>,
                    <<3, 4, <<0>>>>, <<4, 5, <<6>>>>, <<5, 6, <<4>>>> >>)
    IN  IF ~IsOk(r) THEN r
        ELSE Ok(r.val \o MacAddress_to_bytes(p.sender_mac) \o p.sender_ip
                      \o MacAddress_to_bytes(p.target_mac) \o p.target_ip)

\* ArpPacket::to_bytes
ArpPacket_to_bytes_fixed(p) == ArpPacket_header_to_bytes_fixed(p)

\* The two compilation profiles: arithmetic overflow panics in "debug" and
\* wraps in "release".
Builds == {"debug", "release"}

RECURSIVE u8_sum(_, _, _)
\* acc + terms[1] + terms[2] + ... in u8, left to right; -1 once an addition
\* overflowed in the debug build
u8_sum(build, acc, terms) ==
    IF acc < 0 \/ terms = <<>> THEN acc
    ELSE LET t == acc + Head(terms)
         IN  IF Head(terms) < 0 THEN -1
             ELSE IF t <= 255 THEN u8_sum(build, t, Tail(terms))
             ELSE IF build = "debug" THEN -1
             ELSE u8_sum(build, t % 256, Tail(terms))

\* a * b in u8; -1 on an overflow in the debug build
u8_mul(build, a, b) ==
    IF a * b <= 255 THEN a * b ELSE IF build = "debug" THEN -1 ELSE (a * b) % 256

\* ArpPacket::from_bytes, the feature on.  The offsets after the first are
\* computed in u8 before they are widened to usize.
ArpPacket_from_bytes_advanced(build, bytes) ==
    IF Len(bytes) <= 7 THEN PanicIndex
    ELSE LET operation == ArpOperation_from_value_advanced(
                              u16_from_be_bytes(At(bytes, 6), At(bytes, 7)))
             h == At(bytes, 4)
             q == At(bytes, 5)
             o1 == u8_sum(build, 8, <<h, q>>)
             o2 == u8_sum(build, 8, <<u8_mul(build, 2, h), q>>)
             o3 == u8_sum(build, 8, <<u8_mul(build, 2, h), u8_mul(build, 2, q)>>)
         IN
         IF ~InRange(bytes, 8, 8 + h) THEN PanicIndex
         ELSE IF o1 < 0 THEN PanicArith
         ELSE IF ~InRange(bytes, 8 + h, o1) THEN PanicIndex
         ELSE IF o2 < 0 THEN PanicArith
         ELSE IF ~InRange(bytes, o1, o2) THEN PanicIndex
         ELSE IF o3 < 0 THEN PanicArith
         ELSE IF ~InRange(bytes, o2, o3) THEN PanicIndex
         ELSE Ok([hardware_type |-> u16_from_be_bytes(At(bytes, 0), At(bytes, 1)),
                  protocol_type |-> u16_from_be_bytes(At(bytes, 2), At(bytes, 3)),
                  hardware_addr_len |-> h,
                  protocol_addr_len |-> q,
                  operation |-> operation.val,
                  sender_hardware_addr |-> Slice(bytes, 8, 8 + h),
                  sender_protocol_addr |-> Slice(bytes, 8 + h, o1),
                  target_hardware_addr |-> Slice(bytes, o1, o2),
                  target_protocol_addr |-> Slice(bytes, o2, o3)])

(***************************************************************************)
(* Padding of an IPv4 or TCP header to a multiple of 4 bytes.              *)
(***************************************************************************)
\* let padding = packet.len() % 4;
\* if padding != 0 { packet.append(vec![1; 4 - padding - 1]); packet.push(0) }
PadHeader(packet) ==
    LET padding == Len(packet) % 4
    IN  IF padding # 0
        THEN Append(packet \o Repeat(1, 4 - padding - 1), 0)
        ELSE packet

(***************************************************************************)
(* tcp.rs                                                                  *)
(***************************************************************************)
\* TcpOption::from_bytes: bytes[0], bytes[1], bytes[2..]
TcpOption_from_bytes(bytes) ==
    IF Len(bytes) < 2 THEN PanicIndex
    ELSE Ok([kind |-> At(bytes, 0),
             length |-> At(bytes, 1),
             data |-> Slice(bytes, 2, Len(bytes))])

TcpOption_to_bytes(option) == <<option.kind, option.length>> \o option.data

TcpFlags_from_bits(nonce_sum, other) ==
    [nonce_sum |-> nonce_sum,
     cwr |-> BitAnd(other, 128) # 0,
     ece |-> BitAnd(other, 64) # 0,
     urg |-> BitAnd(other, 32) # 0,
     ack |-> BitAnd(other, 16) # 0,
     psh |-> BitAnd(other, 8) # 0,
     rst |-> BitAnd(other, 4) # 0,
     syn |-> BitAnd(other, 2) # 0,
     fin |-> BitAnd(other, 1) # 0]

\* (nonce_sum, byte)
TcpFlags_to_bits(flags) ==
    <<flags.nonce_sum,
      BitOr(BitOr(BitOr(BitOr(BitOr(BitOr(BitOr(
          Shl8(BoolU8(flags.cwr), 7),
          Shl8(BoolU8(flags.ece), 6)),
          Shl8(BoolU8(flags.urg), 5)),
          Shl8(BoolU8(flags.ack), 4)),
          Shl8(BoolU8(flags.psh), 3)),
          Shl8(BoolU8(flags.rst), 2)),
          Shl8(BoolU8(flags.syn), 1)),
          BoolU8(flags.fin))>>

\* an option loop that steps over an option as the IPv4 loop does
RECURSIVE TcpOptionsStepPlus2(_, _, _, _)
TcpOptionsStepPlus2(bytes, data_offset, i, options) ==
    IF ~(i < data_offset) THEN Ok(options)
    ELSE IF i >= Len(bytes) THEN PanicIndex
    ELSE IF At(bytes, i) = 0 THEN Ok(options)
    ELSE IF At(bytes, i) = 1
         THEN TcpOptionsStepPlus2(bytes, data_offset, i + 1, options)
    ELSE IF i + 1 >= Len(bytes) THEN PanicIndex
    ELSE IF ~InRange(bytes, i, i + At(bytes, i + 1)) THEN PanicIndex
    ELSE LET option == TcpOption_from_bytes(Slice(bytes, i, i + At(bytes, i + 1)))
         IN  IF ~IsOk(option) THEN option
             ELSE TcpOptionsStepPlus2(bytes, data_offset, i + At(bytes, i + 1) + 2,
                                      Append(options, option.val))

\* the loop of TcpPacket::from_bytes from cursor i on:
\*   while i < data_offset {
\*       if bytes[i] == 0 {break;}
\*       if bytes[i] == 1 {i += 1; continue;}
\*       options.push(TcpOption::from_bytes(bytes[i..i + bytes[i + 1]]));
\*       i += bytes[i + 1];
\*   }
RECURSIVE TcpOptionsLoop(_, _, _, _)
TcpOptionsLoop(bytes, data_offset, i, options) ==
    IF ~(i < data_offset) THEN Ok(options)
    ELSE IF i >= Len(bytes) THEN PanicIndex
    ELSE IF At(bytes, i) = 0 THEN Ok(options)
    ELSE IF At(bytes, i) = 1
         THEN TcpOptionsLoop(bytes, data_offset, i + 1, options)
    ELSE IF i + 1 >= Len(bytes) THEN PanicIndex
    ELSE IF ~InRange(bytes, i, i + At(bytes, i + 1)) THEN PanicIndex
    ELSE LET option == TcpOption_from_bytes(Slice(bytes, i, i + At(bytes, i + 1)))
         IN  IF ~IsOk(option) THEN option
             ELSE TcpOptionsLoop(bytes, data_offset, i + At(bytes, i + 1),
                                 Append(options, option.val))

TcpPacket_from_bytes(bytes) ==
    IF Len(bytes) < 20 THEN PanicLength
    ELSE LET data_offset == Shr(At(bytes, 12), 4) * 4
             options == IF Len(bytes) > 20
                        THEN TcpOptionsLoop(bytes, data_offset, 20, <<>>)
                        ELSE Ok(<<>>)
         IN
         IF ~IsOk(options) THEN options
         ELSE IF ~InRange(bytes, data_offset, Len(bytes)) THEN PanicIndex
         ELSE Ok([source |-> u16_from_be_bytes(At(bytes, 0), At(bytes, 1)),
                  destination |-> u16_from_be_bytes(At(bytes, 2), At(bytes, 3)),
                  sequence_number |->
                      u32_from_be_bytes(At(bytes, 4), At(bytes, 5),
                                        At(bytes, 6), At(bytes, 7)),
                  acknowledgement_number |->
                      u32_from_be_bytes(At(bytes, 8), At(bytes, 9),
                                        At(bytes, 10), At(bytes, 11)),
                  data_offset |-> data_offset,
                  flags |-> TcpFlags_from_bits(BitAnd(At(bytes, 12), 1) # 0,
                                               At(bytes, 13)),
                  window_size |-> u16_from_be_bytes(At(bytes, 14), At(bytes, 15)),
                  checksum |-> u16_from_be_bytes(At(bytes, 16), At(bytes, 17)),
                  urgent_pointer |-> u16_from_be_bytes(At(bytes, 18), At(bytes, 19)),
                  options |-> options.val,
                  payload |-> Slice(bytes, data_offset, Len(bytes))])

TcpPacket_header_to_bytes(p) ==
    LET flags == TcpFlags_to_bits(p.flags)
        r == ApplyWrites(Repeat(0, 20),
                 << <<0, 2, u16_to_be_bytes(p.source)>>,
                    <<2, 4, u16_to_be_bytes(p.destination)>>,
                    <<4, 8, u32_to_be_bytes(p.sequence_number)>>,
                    <<8, 12, u32_to_be_bytes(p.acknowledgement_number)>>,
                    <<12, 13, <<BitOr(Shl8(p.data_offset \div 4, 4),
                                      BoolU8(flags[1]))>>>>,
                    <<13, 14, <<flags[2]>>>>,
                    <<14, 16, u16_to_be_bytes(p.window_size)>>,
                    <<16, 18, u16_to_be_bytes(p.checksum)>>,
                    <<18, 20, u16_to_be_bytes(p.urgent_pointer)>> >>)
    IN  IF ~IsOk(r) THEN r
        ELSE Ok(PadHeader(r.val
                   \o Concat([k \in 1..Len(p.options) |->
                                 TcpOption_to_bytes(p.options[k])])))

TcpPacket_to_bytes(p) ==
    LET header == TcpPacket_header_to_bytes(p)
    IN  IF ~IsOk(header) THEN header ELSE Ok(header.val \o p.payload)

\* TcpPacket::recalculate_data_offset: `header as u8`
TcpPacket_recalculate_data_offset(p) ==
    LET header == TcpPacket_header_to_bytes(p)
    IN  IF ~IsOk(header) THEN header
        ELSE Ok([p EXCEPT !.data_offset = Len(header.val) % 256])

(***************************************************************************)
(* ipv4.rs                                                                 *)
(***************************************************************************)
\* The variants of Ipv4OptionClass; v is the bool of Reserved(v) and FALSE
\* in the variants that carry none.
Control == [variant |-> "Control", v |-> FALSE]
Debug == [variant |-> "Debug", v |-> FALSE]
Reserved(v) == [variant |-> "Reserved", v |-> v]

Ipv4OptionClass_from_bits(bits) ==
    CASE bits = 0 -> Ok(Control)
      [] bits = 1 -> Ok(Reserved(FALSE))
      [] bits = 2 -> Ok(Debug)
      [] bits = 3 -> Ok(Reserved(TRUE))
      [] OTHER -> PanicValue

Ipv4OptionClass_to_bits(class) ==
    CASE class.variant = "Control" -> 0
      [] class.variant = "Debug" -> 2
      [] class.variant = "Reserved" -> IF class.v THEN 3 ELSE 1

\* Ipv4Option::from_bytes: bytes[0], bytes[1], bytes[2..]
Ipv4Option_from_bytes(bytes) ==
    IF Len(bytes) < 2 THEN PanicIndex
    ELSE LET class == Ipv4OptionClass_from_bits(
                          Shr(BitAnd(At(bytes, 0), 96), 5))
         IN  IF ~IsOk(class) THEN class
             ELSE Ok([copy |-> BitAnd(At(bytes, 0), 128) # 0,
                      class |-> class.val,
                      number |-> BitAnd(At(bytes, 0), 31),
                      length |-> At(bytes, 1),
                      data |-> Slice(bytes, 2, Len(bytes))])

Ipv4Option_to_bytes(option) ==
    <<BitOr(BitOr(Shl8(BoolU8(option.copy), 7),
                  Shl8(Ipv4OptionClass_to_bits(option.class), 5)),
            BitAnd(option.number, 31)),
      option.length>> \o option.data

\* Ipv4Option::recalculate_length: self.data.len() as u8
Ipv4Option_recalculate_length(option) ==
    [option EXCEPT !.length = Len(option.data) % 256]

\* the loop of Ipv4Packet::from_bytes from cursor i on:
\*   while i < header_len {
\*       if bytes[i] == 0 {break;}
\*       if bytes[i] == 1 {i += 1; continue;}
\*       options.push(Ipv4Option::from_bytes(&bytes[i..i + 2 + bytes[i + 1]]));
\*       i += bytes[i + 1] + 2;
\*   }
RECURSIVE Ipv4OptionsLoop(_, _, _, _)
Ipv4OptionsLoop(bytes, header_len, i, options) ==
    IF ~(i < header_len) THEN Ok(options)
    ELSE IF i >= Len(bytes) THEN PanicIndex
    ELSE IF At(bytes, i) = 0 THEN Ok(options)
    ELSE IF At(bytes, i) = 1
         THEN Ipv4OptionsLoop(bytes, header_len, i + 1, options)
    ELSE IF i + 1 >= Len(bytes) THEN PanicIndex
    ELSE IF ~InRange(bytes, i, i + 2 + At(bytes, i + 1)) THEN PanicIndex
    ELSE LET option == Ipv4Option_from_bytes(
                           Slice(bytes, i, i + 2 + At(bytes, i + 1)))
         IN  IF ~IsOk(option) THEN option
             ELSE Ipv4OptionsLoop(bytes, header_len, i + At(bytes, i + 1) + 2,
                                  Append(options, option.val))

Ipv4Packet_from_bytes(bytes) ==
    IF Len(bytes) < 1 THEN PanicIndex
    ELSE IF Shr(At(bytes, 0), 4) # 4 THEN PanicVersion
    ELSE IF Len(bytes) < 20 THEN PanicLength
    ELSE LET header_len == BitAnd(At(bytes, 0), 15) * 4
             options == IF header_len > 20
                        THEN Ipv4OptionsLoop(bytes, header_len, 20, <<>>)
                        ELSE Ok(<<>>)
         IN
         IF ~IsOk(options) THEN options
         ELSE IF ~InRange(bytes, header_len, Len(bytes)) THEN PanicIndex
         ELSE Ok([header_len |-> header_len,
                  tos |-> At(bytes, 1),
                  total_len |-> u16_from_be_bytes(At(bytes, 2), At(bytes, 3)),
                  id |-> u16_from_be_bytes(At(bytes, 4), At(bytes, 5)),
                  dont_fragment |-> BitAnd(At(bytes, 6), 64) # 0,
                  more_fragments |-> BitAnd(At(bytes, 6), 32) # 0,
                  fragment_offset |->
                      u16_from_be_bytes(BitAnd(At(bytes, 6), 31), At(bytes, 7)) * 8,
                  ttl |-> At(bytes, 8),
                  protocol |-> At(bytes, 9),
                  checksum |-> u16_from_be_bytes(At(bytes, 10), At(bytes, 11)),
                  source |-> Slice(bytes, 12, 16),
                  destination |-> Slice(bytes, 16, 20),
                  options |-> options.val,
                  payload |-> Slice(bytes, header_len, Len(bytes))])

\* The range a header_to_bytes writes the destination address to:
\* packet[16..19].copy_from_slice(&self.destination.octets())
Ipv4DestinationRange == <<16, 19>>

Ipv4Packet_header_to_bytes(p) ==
    LET fragment_offset == u16_to_be_bytes(p.fragment_offset \div 8)
        r == ApplyWrites(Repeat(0, 20),
                 << <<0, 1, <<BitOr(Shl8(4, 4), BitAnd(p.header_len \div 4, 15))>>>>,
                    <<1, 2, <<p.tos>>>>,
                    <<2, 4, u16_to_be_bytes(p.total_len)>>,
                    <<4, 6, u16_to_be_bytes(p.id)>>,
                    <<6, 7, <<BitOr(BitOr(Shl8(BoolU8(p.dont_fragment), 6),
                                          Shl8(BoolU8(p.more_fragments), 5)),
                                    fragment_offset[1])>>>>,
                    <<7, 8, <<fragment_offset[2]>>>>,
                    <<8, 9, <<p.ttl>>>>,
                    <<9, 10, <<p.protocol>>>>,
                    <<10, 12, u16_to_be_bytes(p.checksum)>>,
                    <<12, 16, p.source>>,
                    <<Ipv4DestinationRange[1], Ipv4DestinationRange[2],
                      p.destination>> >>)
    IN  IF ~IsOk(r) THEN r
        ELSE Ok(PadHeader(r.val
                   \o Concat([k \in 1..Len(p.options) |->
                                 Ipv4Option_to_bytes(p.options[k])])))

Ipv4Packet_to_bytes(p) ==
    LET header == Ipv4Packet_header_to_bytes(p)
    IN  IF ~IsOk(header) THEN header ELSE Ok(header.val \o p.payload)

\* Ipv4Packet::recalculate_lengths: `header as u8`, `header as u16 + payload.len() as u16`
Ipv4Packet_recalculate_lengths(p) ==
    LET header == Ipv4Packet_header_to_bytes(p)
    IN  IF ~IsOk(header) THEN header
        ELSE Ok([p EXCEPT !.header_len = Len(header.val) % 256,
                          !.total_len = (Len(header.val) + Len(p.payload)) % 65536])

(***************************************************************************)
(* util.rs: the DSCP and ECN codecs.                                       *)
(***************************************************************************)
\* from_bits with a fallback in place of the panic
DscpType_from_bits_lenient(value) ==
    CASE value = 8 -> Ok("CS1")
      [] value = 16 -> Ok("CS2")
      [] value = 24 -> Ok("CS3")
      [] value = 32 -> Ok("CS4")
      [] value = 40 -> Ok("CS5")
      [] value = 48 -> Ok("CS6")
      [] value = 56 -> Ok("CS7")
      [] value = 46 -> Ok("EF")
      [] OTHER -> Ok("CS0")

DscpType_from_bits(value) ==
    CASE value = 0 -> Ok("CS0")
      [] value = 8 -> Ok("CS1")
      [] value = 16 -> Ok("CS2")
      [] value = 24 -> Ok("CS3")
      [] value = 32 -> Ok("CS4")
      [] value = 40 -> Ok("CS5")
      [] value = 48 -> Ok("CS6")
      [] value = 56 -> Ok("CS7")
      [] value = 46 -> Ok("EF")
      [] OTHER -> PanicValue

DscpType_to_bits(dscp) ==
    CASE dscp = "CS0" -> 0
      [] dscp = "CS1" -> 8
      [] dscp = "CS2" -> 16
      [] dscp = "CS3" -> 24
      [] dscp = "CS4" -> 32
      [] dscp = "CS5" -> 40
      [] dscp = "CS6" -> 48
      [] dscp = "CS7" -> 56
      [] dscp = "EF" -> 46

EcnType_from_bits(value) ==
    CASE value = 0 -> Ok("NotECT")
      [] value = 1 -> Ok("ECT1")
      [] value = 2 -> Ok("ECT0")
      [] value = 3 -> Ok("CE")
      [] OTHER -> PanicValue

EcnType_to_bits(ecn) ==
    CASE ecn = "NotECT" -> 0
      [] ecn = "ECT1" -> 1
      [] ecn = "ECT0" -> 2
      [] ecn = "CE" -> 3

(***************************************************************************)
(* ipv6.rs.  An extension header is a record with its variant in `type`.   *)
(***************************************************************************)
\* a - b in usize, then `as u8`; -1 on an underflow in the debug build
usize_sub_as_u8(build, a, b) ==
    IF a >= b THEN (a - b) % 256
    ELSE IF build = "debug" THEN -1
    ELSE (a - b) % 256

Ipv6Option_to_bytes(option) ==
    IF option.kind = 0 THEN <<0>>
    ELSE <<option.kind, Len(option.data) % 256>> \o option.data

\* the option bytes of a HopByHopOptions or DestinationOptions header
Ipv6OptionBytes(options) ==
    Concat([k \in 1..Len(options) |-> Ipv6Option_to_bytes(options[k])])

\* the trailing pad option of `pad` bytes that HopByHopOptions and
\* DestinationOptions append: Pad1, or PadN with pad - 2 zero bytes;
\* pad - 2 underflows in usize for pad < 2, which panics in the debug
\* build and asks for a vector of 2^64 - 2 + pad bytes in the release build
Ipv6PadOption(header, pad) ==
    IF pad = 1 THEN Ok(Append(header, 0))
    ELSE IF pad < 2 THEN PanicArith
    ELSE Ok(header \o <<1, pad - 2>> \o Repeat(0, pad - 2))

\* Ipv6ExtensionHeader::to_bytes
Ipv6ExtensionHeader_to_bytes(build, h) ==
    CASE h.type = "HopByHopOptions" ->
            LET option_bytes == Ipv6OptionBytes(h.options)
                len == usize_sub_as_u8(build, (Len(option_bytes) + 2) \div 8, 1)
                header == <<h.next_header, len>> \o option_bytes
                padding == Len(header) % 8
            IN  IF len < 0 THEN PanicArith
                ELSE IF padding # 0 THEN Ipv6PadOption(header, 8 - padding)
                ELSE Ok(header)
      [] h.type = "Routing" ->
            LET len == usize_sub_as_u8(build, (Len(h.payload) + 2) \div 8, 1)
            IN  IF len < 0 THEN PanicArith
                ELSE Ok(<<h.next_header, len>> \o h.payload)
      [] h.type = "Fragment" ->
            Ok(<<h.next_header>> \o h.payload)
      [] h.type = "DestinationOptions" ->
            LET option_bytes == Ipv6OptionBytes(h.options)
                len == usize_sub_as_u8(build, (Len(option_bytes) + 2) \div 8, 1)
                header == <<h.next_header, len>> \o option_bytes
                padding == 8 - (Len(header) % 8)
            IN  IF len < 0 THEN PanicArith
                ELSE IF padding # 0 THEN Ipv6PadOption(header, 8 - padding)
                ELSE Ok(header)
      [] h.type = "Mobility" ->
            LET len == usize_sub_as_u8(build, (Len(h.payload) + 2) \div 8, 1)
                header == <<h.next_header, len>> \o h.payload
            IN  IF len < 0 THEN PanicArith
                ELSE Ok(header \o Repeat(0, 8 - (Len(header) % 8)))

Ipv6ExtensionHeader_get_type(h) ==
    CASE h.type = "HopByHopOptions" -> 0
      [] h.type = "Routing" -> 43
      [] h.type = "Fragment" -> 44
      [] h.type = "DestinationOptions" -> 60
      [] h.type = "Mobility" -> 135

Ipv6ExtensionHeader_get_next_header_type(h) == h.next_header

\* the option loop of a HopByHopOptions or DestinationOptions header:
\*   while j < length {
\*       if data[j] == 0 { options.push(Pad1); j += 1; }
\*       else { options.push(Ipv6Option {kind: data[j],
\*                  data: data[j + 2..j + 2 + data[j + 1]]});
\*              j += 2 + data[j + 1]; }
\*   }
RECURSIVE Ipv6OptionsLoop(_, _, _, _)
Ipv6OptionsLoop(data, length, j, options) ==
    IF ~(j < length) THEN Ok(options)
    ELSE IF At(data, j) = 0
         THEN Ipv6OptionsLoop(data, length, j + 1,
                              Append(options, [kind |-> 0, data |-> <<>>]))
    ELSE IF j + 1 >= Len(data) THEN PanicIndex
    ELSE IF ~InRange(data, j + 2, j + 2 + At(data, j + 1)) THEN PanicIndex
    ELSE Ipv6OptionsLoop(data, length, j + 2 + At(data, j + 1),
             Append(options,
                    [kind |-> At(data, j),
                     data |-> Slice(data, j + 2, j + 2 + At(data, j + 1))]))

\* one arm of the match for an options header (0 and 60): the header and the
\* cursor after it
Ipv6OptionsHeader(bytes, i, type) ==
    IF i + 1 >= Len(bytes) THEN PanicIndex
    ELSE LET length == (At(bytes, i + 1) + 1) * 8 - 2 IN
         IF ~InRange(bytes, i + 2, i + 2 + length) THEN PanicIndex
         ELSE LET options == Ipv6OptionsLoop(Slice(bytes, i + 2, i + 2 + length),
                                             length, 0, <<>>)
              IN  IF ~IsOk(options) THEN options
                  ELSE Ok([header |-> [type |-> type,
                                       next_header |-> At(bytes, i),
                                       options |-> options.val],
                           i |-> i + length + 2])

\* one arm of the match for a header with an opaque payload (43 and 135)
Ipv6PayloadHeader(bytes, i, type) ==
    IF i + 1 >= Len(bytes) THEN PanicIndex
    ELSE LET length == (At(bytes, i + 1) + 1) * 8 IN
         IF ~InRange(bytes, i + 2, i + length) THEN PanicIndex
         ELSE Ok([header |-> [type |-> type,
                              next_header |-> At(bytes, i),
                              payload |-> Slice(bytes, i + 2, i + length)],
                  i |-> i + length])

\* the arm of the match for a Fragment header (44)
Ipv6FragmentHeader(bytes, i) ==
    IF i >= Len(bytes) THEN PanicIndex
    ELSE IF ~InRange(bytes, i + 1, i + 8) THEN PanicIndex
    ELSE Ok([header |-> [type |-> "Fragment",
                         next_header |-> At(bytes, i),
                         payload |-> Slice(bytes, i + 1, i + 8)],
             i |-> i + 8])

\* the loop of Ipv6Packet::from_bytes over the extension headers:
\* Ok([extension_headers, payload]) or the panic that ended it
RECURSIVE Ipv6ExtensionLoop(_, _, _, _)
Ipv6ExtensionLoop(bytes, next_header, i, headers) ==
    IF next_header \in {0, 43, 44, 60, 135}
    THEN LET h == CASE next_header = 0 ->
                         Ipv6OptionsHeader(bytes, i, "HopByHopOptions")
                    [] next_header = 43 ->
                         Ipv6PayloadHeader(bytes, i, "Routing")
                    [] next_header = 44 ->
                         Ipv6FragmentHeader(bytes, i)
                    [] next_header = 60 ->
                         Ipv6OptionsHeader(bytes, i, "DestinationOptions")
                    [] next_header = 135 ->
                         Ipv6PayloadHeader(bytes, i, "Mobility")
         IN  IF ~IsOk(h) THEN h
             ELSE Ipv6ExtensionLoop(bytes, h.val.header.next_header, h.val.i,
                                    Append(headers, h.val.header))
    ELSE IF ~InRange(bytes, i, Len(bytes)) THEN PanicIndex
    ELSE Ok([extension_headers |-> headers,
             payload |-> Slice(bytes, i, Len(bytes))])

Ipv6Packet_from_bytes(bytes) ==
    IF Len(bytes) < 1 THEN PanicIndex
    ELSE IF Shr(At(bytes, 0), 4) # 6 THEN PanicVersion
    ELSE IF Len(bytes) < 40 THEN PanicLength
    ELSE LET dscp == DscpType_from_bits(
                         BitOr(Shl8(BitAnd(At(bytes, 0), 15), 2),
                               Shr(BitAnd(At(bytes, 1), 192), 6)))
             ecn == EcnType_from_bits(Shr(BitAnd(At(bytes, 1), 48), 4))
             chain == Ipv6ExtensionLoop(bytes, At(bytes, 6), 40, <<>>)
         IN
         IF ~IsOk(dscp) THEN dscp
         ELSE IF ~IsOk(ecn) THEN ecn
         ELSE IF ~IsOk(chain) THEN chain
         ELSE Ok([dscp |-> dscp.val,
                  ecn |-> ecn.val,
                  flow_label |-> u32_from_be_bytes(0, BitAnd(At(bytes, 1), 15),
                                                   At(bytes, 2), At(bytes, 3)),
                  payload_len |-> u16_from_be_bytes(At(bytes, 4), At(bytes, 5)),
                  next_header |-> At(bytes, 6),
                  hop_limit |-> At(bytes, 7),
                  source |-> Slice(bytes, 8, 24),
                  destination |-> Slice(bytes, 24, 40),
                  extension_headers |-> chain.val.extension_headers,
                  payload |-> chain.val.payload])

RECURSIVE Ipv6AppendHeaders(_, _, _)
\* for header in self.extension_headers.iter() { packet.append(header.to_bytes()) }
Ipv6AppendHeaders(build, packet, headers) ==
    IF headers = <<>> THEN Ok(packet)
    ELSE LET h == Ipv6ExtensionHeader_to_bytes(build, Head(headers))
         IN  IF ~IsOk(h) THEN h
             ELSE Ipv6AppendHeaders(build, packet \o h.val, Tail(headers))

Ipv6Packet_header_to_bytes(build, p) ==
    LET dscp == DscpType_to_bits(p.dscp)
        flow_label == u32_to_be_bytes(p.flow_label)
        r == ApplyWrites(Repeat(0, 40),
                 << <<0, 1, <<BitOr(Shl8(6, 4), Shr(dscp, 2))>>>>,
                    <<1, 2, <<BitOr(BitOr(Shl8(dscp, 6),
                                          Shl8(EcnType_to_bits(p.ecn), 4)),
                                    BitAnd(flow_label[2], 15))>>>>,
                    <<2, 3, <<flow_label[3]>>>>,
                    <<3, 4, <<flow_label[4]>>>>,
                    <<4, 6, u16_to_be_bytes(p.payload_len)>>,
                    <<6, 7, <<p.next_header>>>>,
                    <<7, 8, <<p.hop_limit>>>>,
                    <<8, 24, p.source>>,
                    <<24, 40, p.destination>> >>)
    IN  IF ~IsOk(r) THEN r
        ELSE Ipv6AppendHeaders(build, r.val, p.extension_headers)

Ipv6Packet_to_bytes(build, p) ==
    LET header == Ipv6Packet_header_to_bytes(build, p)
    IN  IF ~IsOk(header) THEN header ELSE Ok(header.val \o p.payload)

(***************************************************************************)
(* The recalculate_* methods and the dispatch to the next level.  A method *)
(* on &mut self is Ok(the packet after the call) or the panic that ended   *)
(* the call.                                                               *)
(***************************************************************************)
\* TcpOption::recalculate_length: self.data.len() as u8 + 2
TcpOption_recalculate_length(option) ==
    [option EXCEPT !.length = (Len(option.data) % 256) + 2]

\* TcpPacket::recalculate_checksum
TcpPacket_recalculate_checksum(p, source_ip, destination_ip) ==
    LET packet == TcpPacket_to_bytes(p) IN
    IF ~IsOk(packet) THEN packet
    ELSE LET pseudo_header ==
                 source_ip \o destination_ip \o <<0, 6>>
                     \o u16_to_be_bytes(Len(packet.val) % 65536) \o packet.val
             r == ApplyWrites(pseudo_header, << <<28, 29, <<0>>>>, <<29, 30, <<0>>>> >>)
         IN  IF ~IsOk(r) THEN r
             ELSE Ok([p EXCEPT !.checksum = checksum(r.val)])

\* recalculate_all with the checksum taken before data_offset is updated
TcpPacket_recalculate_all_checksum_first(p, source_ip, destination_ip) ==
    LET lengths == [p EXCEPT !.options =
                        [k \in 1..Len(p.options) |->
                            TcpOption_recalculate_length(p.options[k])]]
        sum == TcpPacket_recalculate_checksum(lengths, source_ip, destination_ip)
    IN  IF ~IsOk(sum) THEN sum
        ELSE TcpPacket_recalculate_data_offset(sum.val)

\* TcpPacket::recalculate_all
TcpPacket_recalculate_all(p, source_ip, destination_ip) ==
    LET lengths == [p EXCEPT !.options =
                        [k \in 1..Len(p.options) |->
                            TcpOption_recalculate_length(p.options[k])]]
        offset == TcpPacket_recalculate_data_offset(lengths)
    IN  IF ~IsOk(offset) THEN offset
        ELSE TcpPacket_recalculate_checksum(offset.val, source_ip, destination_ip)

\* UdpPacket::recalculate_length
UdpPacket_recalculate_length(p) ==
    [p EXCEPT !.length = Len(UdpPacket_to_bytes(p)) % 65536]

\* recalculate_checksum with no test of the families: the pseudo-header of
\* the source's family whatever the destination is
UdpPacket_recalculate_checksum_unmatched(p, source_ip, destination_ip) ==
    LET r == ApplyWrites(UdpPacket_to_bytes(p), << <<6, 7, <<0>>>>, <<7, 8, <<0>>>> >>)
    IN
    IF ~IsOk(r) THEN r
    ELSE IF source_ip.family = "V4"
    THEN Ok([p EXCEPT !.checksum =
                checksum(source_ip.octets \o destination_ip.octets \o <<0, 17>>
                             \o u16_to_be_bytes(Len(r.val) % 65536) \o r.val)])
    ELSE Ok([p EXCEPT !.checksum =
                checksum(source_ip.octets \o destination_ip.octets
                             \o u32_to_be_bytes(U32((Len(r.val) \div 65536) % 65536,
                                                     Len(r.val) % 65536))
                             \o <<0, 0, 0, 17>> \o r.val)])

\* An IpAddr is a record of its family, "V4" or "V6", and its octets.
\* UdpPacket::recalculate_checksum
UdpPacket_recalculate_checksum(p, source_ip, destination_ip) ==
    LET r == ApplyWrites(UdpPacket_to_bytes(p), << <<6, 7, <<0>>>>, <<7, 8, <<0>>>> >>)
    IN
    IF ~IsOk(r) THEN r
    ELSE IF source_ip.family = "V4" /\ destination_ip.family = "V4"
    THEN Ok([p EXCEPT !.checksum =
                checksum(source_ip.octets \o destination_ip.octets \o <<0, 17>>
                             \o u16_to_be_bytes(Len(r.val) % 65536) \o r.val)])
    ELSE IF source_ip.family = "V6" /\ destination_ip.family = "V6"
    THEN Ok([p EXCEPT !.checksum =
                checksum(source_ip.octets \o destination_ip.octets
                             \o u32_to_be_bytes(U32((Len(r.val) \div 65536) % 65536,
                                                     Len(r.val) % 65536))
                             \o <<0, 0, 0, 17>> \o r.val)])
    ELSE PanicArgument

\* self after UdpPacket::recalculate_checksum returned or panicked: the
\* only writes to self are the two `self.checksum = ...` of the arms of one
\* family; `packet` is a copy
UdpPacket_recalculate_checksum_self(p, source_ip, destination_ip) ==
    LET r == UdpPacket_recalculate_checksum(p, source_ip, destination_ip)
    IN  IF IsOk(r) THEN r.val ELSE p

\* UdpPacket::recalculate_all
UdpPacket_recalculate_all(p, source_ip, destination_ip) ==
    UdpPacket_recalculate_checksum(UdpPacket_recalculate_length(p),
                                   source_ip, destination_ip)

\* Ipv4Packet::recalculate_checksum: checksum(self.header_to_bytes())
Ipv4Packet_recalculate_checksum(p) ==
    LET header == Ipv4Packet_header_to_bytes(p)
    IN  IF ~IsOk(header) THEN header
        ELSE Ok([p EXCEPT !.checksum = checksum(header.val)])

\* A next-level packet is a record of its variant and what the variant holds.
\* Ipv4Packet::get_next_level_packet
Ipv4Packet_get_next_level_packet(p) ==
    CASE p.protocol = 6 ->
            LET r == TcpPacket_from_bytes(p.payload)
            IN  IF IsOk(r) THEN Ok([variant |-> "Tcp", packet |-> r.val]) ELSE r
      [] p.protocol = 17 ->
            LET r == UdpPacket_from_bytes(p.payload)
            IN  IF IsOk(r) THEN Ok([variant |-> "Udp", packet |-> r.val]) ELSE r
      [] OTHER -> PanicUnimplemented

RECURSIVE Ipv6HeadersLength(_, _, _)
\* for header in self.extension_headers.iter() { length += header.to_bytes().len() as u16 }
\* (the sum stays far below 65536 for the packets of this model)
Ipv6HeadersLength(build, length, headers) ==
    IF headers = <<>> THEN Ok(length)
    ELSE LET h == Ipv6ExtensionHeader_to_bytes(build, Head(headers))
         IN  IF ~IsOk(h) THEN h
             ELSE Ipv6HeadersLength(build, (length + Len(h.val)) % 65536,
                                    Tail(headers))

\* Ipv6Packet::recalculate_length
Ipv6Packet_recalculate_length(build, p) ==
    LET length == Ipv6HeadersLength(build, Len(p.payload) % 65536,
                                    p.extension_headers)
    IN  IF ~IsOk(length) THEN length
        ELSE Ok([p EXCEPT !.payload_len = length.val])

\* Ipv6Packet::recalculate_next_header: self.extension_headers[0].get_type()
Ipv6Packet_recalculate_next_header(p) ==
    IF Len(p.extension_headers) = 0 THEN PanicIndex
    ELSE Ok([p EXCEPT !.next_header =
                Ipv6ExtensionHeader_get_type(p.extension_headers[1])])

\* Ipv6Packet::recalculate_all
Ipv6Packet_recalculate_all(build, p) ==
    LET length == Ipv6Packet_recalculate_length(build, p)
    IN  IF ~IsOk(length) THEN length
        ELSE Ipv6Packet_recalculate_next_header(length.val)

\* Ipv6Packet::get_next_level_packet
Ipv6Packet_get_next_level_packet(p) ==
    LET protocol ==
            IF p.extension_headers = <<>> THEN p.next_header
            ELSE Ipv6ExtensionHeader_get_next_header_type(
                     p.extension_headers[Len(p.extension_headers)])
    IN  CASE protocol = 6 ->
                LET r == TcpPacket_from_bytes(p.payload)
                IN  IF IsOk(r) THEN Ok([variant |-> "Tcp", packet |-> r.val]) ELSE r
          [] protocol = 17 ->
                LET r == UdpPacket_from_bytes(p.payload)
                IN  IF IsOk(r) THEN Ok([variant |-> "Udp", packet |-> r.val]) ELSE r
          [] OTHER -> Ok([variant |-> "Unimplemented", bytes |-> p.payload])

(***************************************************************************)
(* Inputs of the checksum: every buffer of at most MaxLen bytes over a set *)
(* of byte values that produces carries out of bit 15 and a second fold.   *)
(***************************************************************************)
SumBytes == {0, 1, 128, 255}
SumBuffers == SeqsUpTo(SumBytes, MaxLen)

Init ==
    /\ op = "new"
    /\ arg = <<>>
    /\ ret = None
    /\ orig = None

\* checksum(bytes), the first call of a run
Checksum ==
    /\ op = "new"
    /\ \E b \in SumBuffers :
           /\ op' = "checksum"
           /\ arg' = b
           /\ ret' = Ok(checksum(b))
           /\ orig' = None

\* The caller stores the checksum of a buffer, computed with the 16-bit
\* checksum field at even offset k zero, big-endian into that field, as
\* header_to_bytes does with the checksum of a packet.
StoreChecksum ==
    /\ op = "checksum"
    /\ \E k \in 0..(Len(arg) - 2) :
        /\ k % 2 = 0
        /\ At(arg, k) = 0 /\ At(arg, k + 1) = 0
        /\ op' = "store_checksum"
        /\ arg' = Slice(arg, 0, k) \o u16_to_be_bytes(ret.val)
                    \o Slice(arg, k + 2, Len(arg))
        /\ ret' = ret
        /\ orig' = Ok(arg)

\* The receiver verifies the buffer: checksum over all of it.
VerifyChecksum ==
    /\ op = "store_checksum"
    /\ op' = "verify_checksum"
    /\ ret' = Ok(checksum(arg))
    /\ UNCHANGED <<arg, orig>>

NextChecksum == Checksum \/ StoreChecksum \/ VerifyChecksum

SpecChecksum == Init /\ [][NextChecksum]_vars

(***************************************************************************)
(* TCP packets built from scratch: the fixed fields from a few profiles,   *)
(* at most MaxOpts options, at most MaxPayload bytes of payload.  Options  *)
(* and payloads hold the bytes 0 (EOL) and 1 (NOP) too.  Some options are  *)
(* not well formed: a stale length, or the kind of a padding byte.         *)
(***************************************************************************)
TcpFlagsAll(b) ==
    [nonce_sum |-> b, cwr |-> b, ece |-> b, urg |-> b, ack |-> b,
     psh |-> b, rst |-> b, syn |-> b, fin |-> b]

TcpProfiles ==
    { [source |-> 0, destination |-> 0, sequence_number |-> U32(0, 0),
       acknowledgement_number |-> U32(0, 0), flags |-> TcpFlagsAll(FALSE),
       window_size |-> 0, checksum |-> 0, urgent_pointer |-> 0],
      [source |-> 65535, destination |-> 65535,
       sequence_number |-> U32(65535, 65535),
       acknowledgement_number |-> U32(65535, 65535), flags |-> TcpFlagsAll(TRUE),
       window_size |-> 65535, checksum |-> 65535, urgent_pointer |-> 65535],
      [source |-> 4660, destination |-> 80, sequence_number |-> U32(1, 515),
       acknowledgement_number |-> U32(32768, 1),
       flags |-> [TcpFlagsAll(FALSE) EXCEPT !.nonce_sum = TRUE, !.ece = TRUE,
                                            !.ack = TRUE, !.syn = TRUE],
       window_size |-> 258, checksum |-> 43981, urgent_pointer |-> 1] }

TcpOptions ==
    { [kind |-> 2, length |-> 2, data |-> <<>>],
      [kind |-> 2, length |-> 3, data |-> <<0>>],
      [kind |-> 255, length |-> 4, data |-> <<1, 0>>],
      [kind |-> 8, length |-> 5, data |-> <<7, 1, 0>>],
      \* a stale length
      [kind |-> 2, length |-> 0, data |-> <<5>>],
      \* the kind of a padding byte
      [kind |-> 1, length |-> 2, data |-> <<>>] }

PayloadBytes == {0, 200}

TcpPackets ==
    { [source |-> f.source, destination |-> f.destination,
       sequence_number |-> f.sequence_number,
       acknowledgement_number |-> f.acknowledgement_number,
       data_offset |-> 0, flags |-> f.flags, window_size |-> f.window_size,
       checksum |-> f.checksum, urgent_pointer |-> f.urgent_pointer,
       options |-> o, payload |-> d] :
          f \in TcpProfiles, o \in SeqsUpTo(TcpOptions, MaxOpts),
          d \in SeqsUpTo(PayloadBytes, MaxPayload) }

\* A packet is built: TcpPacket::new(), the fields set one by one, and
\* either recalculate_data_offset() called or data_offset left at 0.
TcpBuild ==
    /\ op = "new"
    /\ \E x \in TcpPackets, recalculate \in BOOLEAN :
           /\ op' = "TcpPacket::new"
           /\ arg' = x
           /\ ret' = IF recalculate THEN TcpPacket_recalculate_data_offset(x)
                     ELSE Ok(x)
           /\ orig' = None

\* packet.to_bytes()
TcpEncode ==
    /\ op = "TcpPacket::new"
    /\ IsOk(ret)
    /\ op' = "TcpPacket::to_bytes"
    /\ arg' = ret.val
    /\ ret' = TcpPacket_to_bytes(ret.val)
    /\ orig' = None

\* packet.header_to_bytes()
TcpEncodeHeader ==
    /\ op = "TcpPacket::new"
    /\ IsOk(ret)
    /\ op' = "TcpPacket::header_to_bytes"
    /\ arg' = ret.val
    /\ ret' = TcpPacket_header_to_bytes(ret.val)
    /\ orig' = None

\* TcpPacket::from_bytes(packet.to_bytes())
TcpDecodeEncoded ==
    /\ op = "TcpPacket::to_bytes"
    /\ IsOk(ret)
    /\ op' = "TcpPacket::from_bytes"
    /\ arg' = ret.val
    /\ ret' = TcpPacket_from_bytes(ret.val)
    /\ orig' = Ok(arg)

NextTcp == TcpBuild \/ TcpEncode \/ TcpEncodeHeader \/ TcpDecodeEncoded

SpecTcp == Init /\ [][NextTcp]_vars

(***************************************************************************)
(* Wire buffers handed to the decoders: a fixed header followed by a tail  *)
(* of at most MaxTail bytes, and every proper prefix of the header.  The   *)
(* tail bytes are option and padding codes and small lengths.              *)
(***************************************************************************)
TailBytes == {0, 1, 2, 4}
Tails == SeqsUpTo(TailBytes, MaxTail)

Prefixes(header) == {SubSeq(header, 1, n) : n \in 0..(Len(header) - 1)}

Wires(headers) ==
    {h \o t : h \in headers, t \in Tails} \cup UNION {Prefixes(h) : h \in headers}

\* header bytes that differ from each other and from the padding codes
Pattern(n, seed) == [i \in 1..n |-> (seed + 17 * i) % 256]

\* 14 bytes: destination, source, ethertype
EthernetHeaders == {Pattern(14, 0), Pattern(14, 128), Repeat(255, 14)}

EthernetDecode ==
    /\ op = "new"
    /\ \E b \in Wires(EthernetHeaders) :
           /\ op' = "EthernetPacket::from_bytes"
           /\ arg' = b
           /\ ret' = EthernetPacket_from_bytes(b)
           /\ orig' = None

\* 8 bytes: source, destination, length, checksum
UdpHeaders == {Pattern(8, 3), <<0, 53, 192, 0, 0, 8, 0, 0>>}

UdpDecode ==
    /\ op = "new"
    /\ \E b \in Wires(UdpHeaders) :
           /\ op' = "UdpPacket::from_bytes"
           /\ arg' = b
           /\ ret' = UdpPacket_from_bytes(b)
           /\ orig' = None

\* the 8 bytes every ARP packet starts with
ArpPrologue(hardware_type, protocol_type, h, q, operation) ==
    u16_to_be_bytes(hardware_type) \o u16_to_be_bytes(protocol_type)
        \o <<h, q>> \o u16_to_be_bytes(operation)

\* 28 bytes of Ethernet/IPv4 ARP, and packets the fixed build rejects
ArpFixedHeaders ==
    { ArpPrologue(1, 2048, 6, 4, o) \o Pattern(20, 40) : o \in {1, 2, 4, 5} }
    \cup { ArpPrologue(6, 2048, 6, 4, 1) \o Pattern(20, 40),
           ArpPrologue(1, 2054, 6, 4, 1) \o Pattern(20, 40),
           ArpPrologue(1, 2048, 8, 4, 1) \o Pattern(20, 40),
           ArpPrologue(1, 2048, 6, 16, 1) \o Pattern(20, 40) }

ArpDecodeFixed ==
    /\ op = "new"
    /\ \E b \in Wires(ArpFixedHeaders) :
           /\ op' = "ArpPacket::from_bytes (fixed)"
           /\ arg' = b
           /\ ret' = ArpPacket_from_bytes_fixed(b)
           /\ orig' = None

\* the prologue alone, with short address lengths: the addresses are the tail
ArpAdvancedHeaders ==
    { ArpPrologue(t, 2048, h, q, o) :
          t \in {6}, h \in {0, 1, 2}, q \in {0, 1}, o \in {9, 300} }

ArpDecodeAdvanced ==
    /\ op = "new"
    /\ \E b \in Wires(ArpAdvancedHeaders), build \in Builds :
           /\ op' = "ArpPacket::from_bytes (advanced)"
           /\ arg' = b
           /\ ret' = ArpPacket_from_bytes_advanced(build, b)
           /\ orig' = None

\* 20 bytes with the data offset nibble d and the nonce bit n in byte 12
TcpHeader(d, n) ==
    [i \in 1..20 |-> IF i = 13 THEN d * 16 + n ELSE (7 + 17 * i) % 256]

TcpHeaders == {TcpHeader(d, n) : d \in {0, 5, 6, 15}, n \in {0, 1}}

TcpDecode ==
    /\ op = "new"
    /\ \E b \in Wires(TcpHeaders) :
           /\ op' = "TcpPacket::from_bytes"
           /\ arg' = b
           /\ ret' = TcpPacket_from_bytes(b)
           /\ orig' = None

\* 20 bytes with the version nibble v and the header length nibble l in byte 0
Ipv4Header(v, l) ==
    [i \in 1..20 |-> IF i = 1 THEN v * 16 + l ELSE (11 + 17 * i) % 256]

Ipv4Headers ==
    {Ipv4Header(4, l) : l \in {0, 5, 6, 15}} \cup {Ipv4Header(6, 5)}

Ipv4Decode ==
    /\ op = "new"
    /\ \E b \in Wires(Ipv4Headers) :
           /\ op' = "Ipv4Packet::from_bytes"
           /\ arg' = b
           /\ ret' = Ipv4Packet_from_bytes(b)
           /\ orig' = None

(***************************************************************************)
(* Specification of the decoders on buffers off the wire.                  *)
(***************************************************************************)
\* 40 bytes of IPv6 header: version v, DSCP bits d, ECN bits e, next header n
Ipv6Header(v, d, e, n) ==
    [i \in 1..40 |->
        CASE i = 1 -> v * 16 + Shr(d, 2)
          [] i = 2 -> (d % 4) * 64 + e * 16 + 5
          [] i = 7 -> n
          [] OTHER -> (13 + 17 * i) % 256]

\* headers that announce an extension header or none, one of an other
\* version and one with a DSCP value that is not of DscpType
Ipv6Headers ==
    {Ipv6Header(6, 0, 0, n) : n \in {0, 43, 44, 60, 135, 59}}
    \cup {Ipv6Header(6, 46, 1, 59), Ipv6Header(4, 0, 0, 59), Ipv6Header(6, 1, 0, 59)}

\* the longest chain of extension headers of a well-formed buffer
MaxChain == 2

\* 8-byte extension headers, one shape or two of each kind: the protocol
\* number of the kind, and the bytes after the next-header byte
Ipv6Shapes ==
    { [type |-> 0, rest |-> <<0, 1, 4, 0, 0, 0, 0>>],
      [type |-> 0, rest |-> <<0, 5, 2, 9, 9, 0, 0>>],
      [type |-> 43, rest |-> <<0, 0, 1, 2, 3, 4, 5>>],
      [type |-> 44, rest |-> <<0, 0, 8, 0, 0, 0, 7>>],
      [type |-> 60, rest |-> <<0, 1, 4, 0, 0, 0, 0>>],
      [type |-> 135, rest |-> <<0, 3, 0, 0, 0, 0, 0>>] }

RECURSIVE Ipv6Chain(_, _)
\* the bytes of a chain of extension headers that ends in the protocol upper
Ipv6Chain(shapes, upper) ==
    IF shapes = <<>> THEN <<>>
    ELSE LET rest == Tail(shapes)
             next == IF rest = <<>> THEN upper ELSE Head(rest).type
         IN  <<next>> \o Head(shapes).rest \o Ipv6Chain(rest, upper)

\* the payloads after the chain
Ipv6Payloads == {<<>>, <<7>>, <<7, 9>>}

\* well-formed buffers: a header with a legal DSCP value, a chain of
\* correctly sized, 8-byte-aligned extension headers, an upper-layer
\* protocol (TCP, UDP or none) and a payload
Ipv6WellFormed ==
    { Ipv6Header(6, d, d % 4, IF c = <<>> THEN u ELSE Head(c).type)
          \o Ipv6Chain(c, u) \o pl :
        d \in {0, 46}, c \in SeqsUpTo(Ipv6Shapes, MaxChain),
        u \in {6, 17, 59}, pl \in Ipv6Payloads }

Ipv6Decode ==
    /\ op = "new"
    /\ \E b \in Wires(Ipv6Headers) \cup Ipv6WellFormed :
           /\ op' = "Ipv6Packet::from_bytes"
           /\ arg' = b
           /\ ret' = Ipv6Packet_from_bytes(b)
           /\ orig' = None

NextDecode ==
    \/ EthernetDecode
    \/ UdpDecode
    \/ ArpDecodeFixed
    \/ ArpDecodeAdvanced
    \/ TcpDecode
    \/ Ipv4Decode
    \/ Ipv6Decode

SpecDecode == Init /\ [][NextDecode]_vars

(***************************************************************************)
(* IPv6: a decoded buffer is encoded again.                                *)
(***************************************************************************)
\* Ipv6Packet::from_bytes(bytes).to_bytes()
Ipv6EncodeDecoded ==
    \E build \in Builds :
        /\ op = "Ipv6Packet::from_bytes"
        /\ IsOk(ret)
        /\ op' = "Ipv6Packet::to_bytes"
        /\ arg' = ret.val
        /\ ret' = Ipv6Packet_to_bytes(build, ret.val)
        /\ orig' = Ok(arg)

NextIpv6 == Ipv6Decode \/ Ipv6EncodeDecoded

SpecIpv6 == Init /\ [][NextIpv6]_vars

(***************************************************************************)
(* ARP, the feature off: packets built from scratch, encoded and decoded.  *)
(***************************************************************************)
ArpMacs == {[bytes |-> Repeat(0, 6)], [bytes |-> <<170, 187, 204, 221, 238, 255>>]}
ArpIps == {<<192, 168, 1, 1>>, <<192, 168, 1, 2>>, <<0, 0, 0, 0>>}

ArpPackets ==
    [operation : {ArpOperation(v) : v \in {"Request", "Reply", "RarpRequest", "RarpReply"}},
     sender_mac : ArpMacs, sender_ip : ArpIps,
     target_mac : ArpMacs, target_ip : ArpIps]

\* ArpPacket::new() and the fields set one by one
ArpBuild ==
    /\ op = "new"
    /\ \E x \in ArpPackets :
           /\ op' = "ArpPacket::new"
           /\ arg' = x
           /\ ret' = Ok(x)
           /\ orig' = None

ArpEncode ==
    /\ op = "ArpPacket::new"
    /\ op' = "ArpPacket::to_bytes"
    /\ arg' = ret.val
    /\ ret' = ArpPacket_to_bytes_fixed(ret.val)
    /\ orig' = None

ArpEncodeHeader ==
    /\ op = "ArpPacket::new"
    /\ op' = "ArpPacket::header_to_bytes"
    /\ arg' = ret.val
    /\ ret' = ArpPacket_header_to_bytes_fixed(ret.val)
    /\ orig' = None

\* ArpPacket::from_bytes(&packet.to_bytes())
ArpDecodeEncoded ==
    /\ op \in {"ArpPacket::to_bytes", "ArpPacket::header_to_bytes"}
    /\ IsOk(ret)
    /\ op' = "ArpPacket::from_bytes (fixed)"
    /\ arg' = ret.val
    /\ ret' = ArpPacket_from_bytes_fixed(ret.val)
    /\ orig' = Ok(arg)

NextArp == ArpBuild \/ ArpEncode \/ ArpEncodeHeader \/ ArpDecodeEncoded

SpecArp == Init /\ [][NextArp]_vars

(***************************************************************************)
(* IPv4 packets built from scratch: the fixed fields from a few profiles,  *)
(* at most MaxOpts options, at most MaxPayload bytes of payload.  The      *)
(* fields are public, and header_len and total_len are set by hand to the  *)
(* sizes of the encoding or left at 0.                                     *)
(***************************************************************************)
Ipv4Profiles ==
    { [tos |-> 0, id |-> 0, dont_fragment |-> FALSE, more_fragments |-> FALSE,
       fragment_offset |-> 0, ttl |-> 0, protocol |-> 0, checksum |-> 0,
       source |-> <<0, 0, 0, 0>>, destination |-> <<0, 0, 0, 0>>],
      [tos |-> 255, id |-> 65535, dont_fragment |-> TRUE, more_fragments |-> TRUE,
       fragment_offset |-> 65528, ttl |-> 255, protocol |-> 17, checksum |-> 65535,
       source |-> <<255, 255, 255, 255>>, destination |-> <<255, 255, 255, 255>>],
      [tos |-> 16, id |-> 4660, dont_fragment |-> TRUE, more_fragments |-> FALSE,
       fragment_offset |-> 2056, ttl |-> 64, protocol |-> 6, checksum |-> 43981,
       source |-> <<192, 168, 1, 1>>, destination |-> <<10, 0, 0, 2>>],
      [tos |-> 0, id |-> 0, dont_fragment |-> FALSE, more_fragments |-> FALSE,
       fragment_offset |-> 0, ttl |-> 64, protocol |-> 6, checksum |-> 0,
       source |-> <<10, 0, 0, 1>>, destination |-> <<10, 0, 0, 2>>] }

Ipv4Options ==
    { [copy |-> FALSE, class |-> Control, number |-> 7, length |-> 2, data |-> <<>>],
      [copy |-> TRUE, class |-> Control, number |-> 3, length |-> 3, data |-> <<0>>],
      [copy |-> FALSE, class |-> Debug, number |-> 4, length |-> 4,
       data |-> <<1, 0>>],
      [copy |-> TRUE, class |-> Reserved(TRUE), number |-> 31, length |-> 5,
       data |-> <<7, 1, 0>>],
      \* the length recalculate_length gives: data.len()
      [copy |-> FALSE, class |-> Reserved(FALSE), number |-> 7, length |-> 1,
       data |-> <<5>>] }

\* the size of the encoded header: 20 bytes and the options, padded to 4
Ipv4HeaderSize(options) ==
    Len(PadHeader(Repeat(0, 20)
            \o Concat([k \in 1..Len(options) |-> Ipv4Option_to_bytes(options[k])])))

\* payloads: a few bytes, a TCP segment and a UDP datagram without data
Ipv4Payloads ==
    SeqsUpTo(PayloadBytes, MaxPayload)
        \cup {TcpHeader(5, 0), <<0, 53, 192, 0, 0, 8, 0, 0>>}

Ipv4Packets ==
    { [header_len |-> IF sized THEN Ipv4HeaderSize(o) ELSE 0,
       tos |-> f.tos,
       total_len |-> IF sized THEN Ipv4HeaderSize(o) + Len(d) ELSE 0,
       id |-> f.id, dont_fragment |-> f.dont_fragment,
       more_fragments |-> f.more_fragments,
       fragment_offset |-> f.fragment_offset, ttl |-> f.ttl,
       protocol |-> f.protocol, checksum |-> f.checksum, source |-> f.source,
       destination |-> f.destination, options |-> o, payload |-> d] :
          f \in Ipv4Profiles, o \in SeqsUpTo(Ipv4Options, MaxOpts),
          d \in Ipv4Payloads, sized \in BOOLEAN }

\* Ipv4Packet::new() and the fields set one by one
Ipv4Build ==
    /\ op = "new"
    /\ \E x \in Ipv4Packets :
           /\ op' = "Ipv4Packet::new"
           /\ arg' = x
           /\ ret' = Ok(x)
           /\ orig' = None

\* packet.to_bytes()
Ipv4Encode ==
    /\ op = "Ipv4Packet::new"
    /\ op' = "Ipv4Packet::to_bytes"
    /\ arg' = ret.val
    /\ ret' = Ipv4Packet_to_bytes(ret.val)
    /\ orig' = None

\* packet.header_to_bytes()
Ipv4EncodeHeader ==
    /\ op = "Ipv4Packet::new"
    /\ op' = "Ipv4Packet::header_to_bytes"
    /\ arg' = ret.val
    /\ ret' = Ipv4Packet_header_to_bytes(ret.val)
    /\ orig' = None

\* packet.recalculate_lengths()
Ipv4RecalculateLengths ==
    /\ op = "Ipv4Packet::new"
    /\ op' = "Ipv4Packet::recalculate_lengths"
    /\ arg' = ret.val
    /\ ret' = Ipv4Packet_recalculate_lengths(ret.val)
    /\ orig' = None

\* packet.recalculate_checksum()
Ipv4RecalculateChecksum ==
    /\ op = "Ipv4Packet::new"
    /\ op' = "Ipv4Packet::recalculate_checksum"
    /\ arg' = ret.val
    /\ ret' = Ipv4Packet_recalculate_checksum(ret.val)
    /\ orig' = None

\* packet.get_next_level_packet()
Ipv4GetNextLevelPacket ==
    /\ op = "Ipv4Packet::new"
    /\ op' = "Ipv4Packet::get_next_level_packet"
    /\ arg' = ret.val
    /\ ret' = Ipv4Packet_get_next_level_packet(ret.val)
    /\ orig' = None

NextIpv4 ==
    \/ Ipv4Build
    \/ Ipv4Encode
    \/ Ipv4EncodeHeader
    \/ Ipv4RecalculateLengths
    \/ Ipv4RecalculateChecksum
    \/ Ipv4GetNextLevelPacket

SpecIpv4 == Init /\ [][NextIpv4]_vars

(***************************************************************************)
(* The headers that are padded to 4 bytes: those of IPv4 and of TCP.       *)
(***************************************************************************)
NextPadding == TcpBuild \/ TcpEncodeHeader \/ Ipv4Build \/ Ipv4EncodeHeader

SpecPadding == Init /\ [][NextPadding]_vars

(***************************************************************************)
(* IPv6 extension headers and packets built from scratch.                  *)
(***************************************************************************)
\* Pad1, PadN of 4 bytes, and two options that carry data or none
Ipv6Options ==
    { [kind |-> 0, data |-> <<>>],
      [kind |-> 1, data |-> <<0, 0, 0, 0>>],
      [kind |-> 5, data |-> <<9, 9>>],
      [kind |-> 194, data |-> <<>>] }

\* payloads of the variants that hold bytes: none, some, and what fills 8
\* bytes after a next-header byte and after a next-header and a length byte
Ipv6HeaderPayloads ==
    {<<>>, <<1, 2, 3>>, <<0, 8, 0, 0, 0, 7>>, <<0, 0, 8, 0, 0, 0, 7>>}

Ipv6ExtensionHeaders ==
    [type : {"HopByHopOptions", "DestinationOptions"}, next_header : {6, 59},
     options : SeqsUpTo(Ipv6Options, MaxOpts)]
    \cup [type : {"Routing", "Fragment", "Mobility"}, next_header : {6, 59},
          payload : Ipv6HeaderPayloads]

\* header.to_bytes()
Ipv6ExtensionHeaderEncode ==
    /\ op = "new"
    /\ \E h \in Ipv6ExtensionHeaders, build \in Builds :
           /\ op' = "Ipv6ExtensionHeader::to_bytes"
           /\ arg' = h
           /\ ret' = Ipv6ExtensionHeader_to_bytes(build, h)
           /\ orig' = None

\* header.get_type()
Ipv6ExtensionHeaderType ==
    /\ op = "new"
    /\ \E h \in Ipv6ExtensionHeaders :
           /\ op' = "Ipv6ExtensionHeader::get_type"
           /\ arg' = h
           /\ ret' = Ok(Ipv6ExtensionHeader_get_type(h))
           /\ orig' = None

NextIpv6Header == Ipv6ExtensionHeaderEncode \/ Ipv6ExtensionHeaderType

SpecIpv6Header == Init /\ [][NextIpv6Header]_vars

\* the fixed fields of a packet; next_header is the upper-layer protocol
Ipv6Profiles ==
    { [dscp |-> "CS0", ecn |-> "NotECT", flow_label |-> U32(0, 0),
       payload_len |-> 0, next_header |-> 6, hop_limit |-> 0,
       source |-> Repeat(0, 16), destination |-> Repeat(0, 16)],
      [dscp |-> "EF", ecn |-> "CE", flow_label |-> U32(15, 65535),
       payload_len |-> 65535, next_header |-> 17, hop_limit |-> 255,
       source |-> Repeat(255, 16), destination |-> Repeat(255, 16)],
      [dscp |-> "CS5", ecn |-> "ECT0", flow_label |-> U32(5, 16465),
       payload_len |-> 8, next_header |-> 59, hop_limit |-> 64,
       source |-> Pattern(16, 1), destination |-> Pattern(16, 2)] }

\* one extension header of each variant that encodes to a multiple of 8
\* bytes, and one with no options at all
Ipv6PacketHeaders ==
    { [type |-> "HopByHopOptions", next_header |-> 6,
       options |-> <<[kind |-> 1, data |-> <<0, 0, 0, 0>>]>>],
      [type |-> "Routing", next_header |-> 17, payload |-> <<0, 8, 0, 0, 0, 7>>],
      [type |-> "Fragment", next_header |-> 59,
       payload |-> <<0, 0, 8, 0, 0, 0, 7>>],
      [type |-> "DestinationOptions", next_header |-> 6,
       options |-> <<[kind |-> 1, data |-> <<0, 0, 0, 0>>],
                     [kind |-> 5, data |-> <<9, 9>>]>>],
      [type |-> "Mobility", next_header |-> 17, payload |-> <<0, 8, 0, 0, 0, 7>>],
      [type |-> "HopByHopOptions", next_header |-> 59, options |-> <<>>] }

\* payloads: none, one byte, a TCP segment and a UDP datagram without data
Ipv6PacketPayloads ==
    {<<>>, <<7>>, TcpHeader(5, 0), <<0, 53, 192, 0, 0, 8, 0, 0>>}

Ipv6Packets ==
    { [dscp |-> f.dscp, ecn |-> f.ecn, flow_label |-> f.flow_label,
       payload_len |-> f.payload_len, next_header |-> f.next_header,
       hop_limit |-> f.hop_limit, source |-> f.source,
       destination |-> f.destination, extension_headers |-> e, payload |-> d] :
          f \in Ipv6Profiles, e \in SeqsUpTo(Ipv6PacketHeaders, MaxChain),
          d \in Ipv6PacketPayloads }

\* Ipv6Packet::new() and the fields set one by one
Ipv6Build ==
    /\ op = "new"
    /\ \E x \in Ipv6Packets :
           /\ op' = "Ipv6Packet::new"
           /\ arg' = x
           /\ ret' = Ok(x)
           /\ orig' = None

\* packet.recalculate_next_header()
Ipv6RecalculateNextHeader ==
    /\ op = "Ipv6Packet::new"
    /\ op' = "Ipv6Packet::recalculate_next_header"
    /\ arg' = ret.val
    /\ ret' = Ipv6Packet_recalculate_next_header(ret.val)
    /\ orig' = None

\* packet.recalculate_all()
Ipv6RecalculateAll ==
    /\ op = "Ipv6Packet::new"
    /\ \E build \in Builds :
           /\ op' = "Ipv6Packet::recalculate_all"
           /\ arg' = ret.val
           /\ ret' = Ipv6Packet_recalculate_all(build, ret.val)
           /\ orig' = None

\* packet.recalculate_all() a second time, in the build of the first call
Ipv6RecalculateAllAgain ==
    /\ op = "Ipv6Packet::recalculate_all"
    /\ orig = None
    /\ IsOk(ret)
    /\ \E build \in Builds :
           /\ Ipv6Packet_recalculate_all(build, arg) = ret
           /\ op' = "Ipv6Packet::recalculate_all"
           /\ arg' = ret.val
           /\ ret' = Ipv6Packet_recalculate_all(build, ret.val)
           /\ orig' = Ok(arg)

\* packet.get_next_level_packet()
Ipv6GetNextLevelPacket ==
    /\ op = "Ipv6Packet::new"
    /\ op' = "Ipv6Packet::get_next_level_packet"
    /\ arg' = ret.val
    /\ ret' = Ipv6Packet_get_next_level_packet(ret.val)
    /\ orig' = None

NextIpv6Packet ==
    \/ Ipv6Build
    \/ Ipv6RecalculateNextHeader
    \/ Ipv6RecalculateAll
    \/ Ipv6RecalculateAllAgain
    \/ Ipv6GetNextLevelPacket

SpecIpv6Packet == Init /\ [][NextIpv6Packet]_vars

(***************************************************************************)
(* TCP and UDP packets recalculated.  The argument of a recalculate call   *)
(* is the packet with the addresses handed to the call.                    *)
(***************************************************************************)
TcpAddresses == {<<10, 0, 0, 1>>, <<192, 168, 255, 2>>}

\* packet.recalculate_all(source_ip, destination_ip)
TcpRecalculateAll ==
    /\ op = "TcpPacket::new"
    /\ IsOk(ret)
    /\ \E s \in TcpAddresses, d \in TcpAddresses :
           /\ s # d
           /\ op' = "TcpPacket::recalculate_all"
           /\ arg' = [packet |-> ret.val, source_ip |-> s, destination_ip |-> d]
           /\ ret' = TcpPacket_recalculate_all(ret.val, s, d)
           /\ orig' = None

\* the same call a second time
TcpRecalculateAllAgain ==
    /\ op = "TcpPacket::recalculate_all"
    /\ orig = None
    /\ IsOk(ret)
    /\ op' = "TcpPacket::recalculate_all"
    /\ arg' = [arg EXCEPT !.packet = ret.val]
    /\ ret' = TcpPacket_recalculate_all(ret.val, arg.source_ip, arg.destination_ip)
    /\ orig' = Ok(arg)

NextTcpRecalculate == TcpBuild \/ TcpRecalculateAll \/ TcpRecalculateAllAgain

SpecTcpRecalculate == Init /\ [][NextTcpRecalculate]_vars

UdpAddresses ==
    { [family |-> "V4", octets |-> <<10, 0, 0, 1>>],
      [family |-> "V4", octets |-> <<192, 168, 255, 2>>],
      [family |-> "V6", octets |-> Repeat(0, 15) \o <<1>>],
      [family |-> "V6", octets |-> Pattern(16, 3)] }

\* some with the length of their encoding, some with a stale length
UdpPackets ==
    { [source |-> f[1], destination |-> f[2], length |-> l, checksum |-> f[3],
       payload |-> d] :
          f \in {<<0, 0, 0>>, <<65535, 65535, 65535>>, <<4660, 53, 43981>>},
          d \in SeqsUpTo(PayloadBytes, MaxPayload), l \in {0, 8, 9} }

\* UdpPacket::new() and the fields set one by one
UdpBuild ==
    /\ op = "new"
    /\ \E x \in UdpPackets :
           /\ op' = "UdpPacket::new"
           /\ arg' = x
           /\ ret' = Ok(x)
           /\ orig' = None

\* packet.recalculate_checksum(source_ip, destination_ip); orig is the
\* packet after the call
UdpRecalculateChecksum ==
    /\ op = "UdpPacket::new"
    /\ \E s \in UdpAddresses, d \in UdpAddresses :
           /\ op' = "UdpPacket::recalculate_checksum"
           /\ arg' = [packet |-> ret.val, source_ip |-> s, destination_ip |-> d]
           /\ ret' = UdpPacket_recalculate_checksum(ret.val, s, d)
           /\ orig' = Ok(UdpPacket_recalculate_checksum_self(ret.val, s, d))

\* packet.recalculate_all(source_ip, destination_ip)
UdpRecalculateAll ==
    /\ op = "UdpPacket::new"
    /\ \E s \in UdpAddresses, d \in UdpAddresses :
           /\ op' = "UdpPacket::recalculate_all"
           /\ arg' = [packet |-> ret.val, source_ip |-> s, destination_ip |-> d]
           /\ ret' = UdpPacket_recalculate_all(ret.val, s, d)
           /\ orig' = None

\* the same call a second time
UdpRecalculateAllAgain ==
    /\ op = "UdpPacket::recalculate_all"
    /\ orig = None
    /\ IsOk(ret)
    /\ op' = "UdpPacket::recalculate_all"
    /\ arg' = [arg EXCEPT !.packet = ret.val]
    /\ ret' = UdpPacket_recalculate_all(ret.val, arg.source_ip, arg.destination_ip)
    /\ orig' = Ok(arg)

NextUdp ==
    UdpBuild \/ UdpRecalculateChecksum \/ UdpRecalculateAll \/ UdpRecalculateAllAgain

SpecUdp == Init /\ [][NextUdp]_vars

(***************************************************************************)
(* The field enumerations: from_bits on every u8, to_bits on every         *)
(* variant, each followed by the conversion back, and the IPv6 decoder on  *)
(* a header with every DSCP and ECN pattern.                               *)
(***************************************************************************)
DscpTypes == {"CS0", "CS1", "CS2", "CS3", "CS4", "CS5", "CS6", "CS7", "EF"}

EcnTypes == {"NotECT", "ECT0", "ECT1", "CE"}

Ipv4OptionClasses == {Control, Debug, Reserved(FALSE), Reserved(TRUE)}

DscpFromBits ==
    /\ op = "new"
    /\ \E value \in Byte :
           /\ op' = "DscpType::from_bits"
           /\ arg' = value
           /\ ret' = DscpType_from_bits(value)
           /\ orig' = None

DscpToBitsBack ==
    /\ op = "DscpType::from_bits"
    /\ orig = None
    /\ IsOk(ret)
    /\ op' = "DscpType::to_bits"
    /\ arg' = ret.val
    /\ ret' = Ok(DscpType_to_bits(ret.val))
    /\ orig' = Ok(arg)

DscpToBits ==
    /\ op = "new"
    /\ \E dscp \in DscpTypes :
           /\ op' = "DscpType::to_bits"
           /\ arg' = dscp
           /\ ret' = Ok(DscpType_to_bits(dscp))
           /\ orig' = None

DscpFromBitsBack ==
    /\ op = "DscpType::to_bits"
    /\ orig = None
    /\ op' = "DscpType::from_bits"
    /\ arg' = ret.val
    /\ ret' = DscpType_from_bits(ret.val)
    /\ orig' = Ok(arg)

EcnFromBits ==
    /\ op = "new"
    /\ \E value \in Byte :
           /\ op' = "EcnType::from_bits"
           /\ arg' = value
           /\ ret' = EcnType_from_bits(value)
           /\ orig' = None

EcnToBitsBack ==
    /\ op = "EcnType::from_bits"
    /\ orig = None
    /\ IsOk(ret)
    /\ op' = "EcnType::to_bits"
    /\ arg' = ret.val
    /\ ret' = Ok(EcnType_to_bits(ret.val))
    /\ orig' = Ok(arg)

EcnToBits ==
    /\ op = "new"
    /\ \E ecn \in EcnTypes :
           /\ op' = "EcnType::to_bits"
           /\ arg' = ecn
           /\ ret' = Ok(EcnType_to_bits(ecn))
           /\ orig' = None

EcnFromBitsBack ==
    /\ op = "EcnType::to_bits"
    /\ orig = None
    /\ op' = "EcnType::from_bits"
    /\ arg' = ret.val
    /\ ret' = EcnType_from_bits(ret.val)
    /\ orig' = Ok(arg)

ClassFromBits ==
    /\ op = "new"
    /\ \E bits \in Byte :
           /\ op' = "Ipv4OptionClass::from_bits"
           /\ arg' = bits
           /\ ret' = Ipv4OptionClass_from_bits(bits)
           /\ orig' = None

ClassToBitsBack ==
    /\ op = "Ipv4OptionClass::from_bits"
    /\ orig = None
    /\ IsOk(ret)
    /\ op' = "Ipv4OptionClass::to_bits"
    /\ arg' = ret.val
    /\ ret' = Ok(Ipv4OptionClass_to_bits(ret.val))
    /\ orig' = Ok(arg)

ClassToBits ==
    /\ op = "new"
    /\ \E class \in Ipv4OptionClasses :
           /\ op' = "Ipv4OptionClass::to_bits"
           /\ arg' = class
           /\ ret' = Ok(Ipv4OptionClass_to_bits(class))
           /\ orig' = None

ClassFromBitsBack ==
    /\ op = "Ipv4OptionClass::to_bits"
    /\ orig = None
    /\ op' = "Ipv4OptionClass::from_bits"
    /\ arg' = ret.val
    /\ ret' = Ipv4OptionClass_from_bits(ret.val)
    /\ orig' = Ok(arg)

\* Ipv6Packet::from_bytes of a header with no extension header and no
\* payload, with every pattern of the 6 DSCP and the 2 ECN bits
Ipv6DecodeTrafficClass ==
    /\ op = "new"
    /\ \E d \in 0..63, e \in 0..3 :
           /\ op' = "Ipv6Packet::from_bytes"
           /\ arg' = Ipv6Header(6, d, e, 59)
           /\ ret' = Ipv6Packet_from_bytes(Ipv6Header(6, d, e, 59))
           /\ orig' = None

NextEnums ==
    \/ DscpFromBits
    \/ DscpToBitsBack
    \/ DscpToBits
    \/ DscpFromBitsBack
    \/ EcnFromBits
    \/ EcnToBitsBack
    \/ EcnToBits
    \/ EcnFromBitsBack
    \/ ClassFromBits
    \/ ClassToBitsBack
    \/ ClassToBits
    \/ ClassFromBitsBack
    \/ Ipv6DecodeTrafficClass

SpecEnums == Init /\ [][NextEnums]_vars

(***************************************************************************)
(* ArpOperation::from_value on every u16, with the feature advanced-arp    *)
(* off and on, and to_value of the operation it returned.                  *)
(***************************************************************************)
ArpFeatures == {"fixed", "advanced"}

ArpOperation_from_value(feature, value) ==
    IF feature = "advanced" THEN ArpOperation_from_value_advanced(value)
    ELSE ArpOperation_from_value_fixed(value)

ArpFromValue ==
    /\ op = "new"
    /\ \E feature \in ArpFeatures, value \in 0..65535 :
           /\ op' = "ArpOperation::from_value"
           /\ arg' = [feature |-> feature, value |-> value]
           /\ ret' = ArpOperation_from_value(feature, value)
           /\ orig' = None

ArpToValue ==
    /\ op = "ArpOperation::from_value"
    /\ IsOk(ret)
    /\ op' = "ArpOperation::to_value"
    /\ arg' = ret.val
    /\ ret' = Ok(ArpOperation_to_value(ret.val))
    /\ orig' = Ok(arg)

NextArpOperation == ArpFromValue \/ ArpToValue

SpecArpOperation == Init /\ [][NextArpOperation]_vars

(***************************************************************************)
(* IPv4 options: recalculate_length on an option, and the decoder on a     *)
(* 24-byte header whose last 4 bytes start with an option's two bytes.     *)
(***************************************************************************)
\* first bytes of an option with each copy flag and class; length bytes
Ipv4OptionWires ==
    { Ipv4Header(4, 6) \o <<f, l>> \o t :
          f \in {7, 131, 68, 255}, l \in {0, 1, 2, 3, 4},
          t \in SeqsUpTo({0, 1, 2}, MaxTail) }

Ipv4DecodeOptions ==
    /\ op = "new"
    /\ \E b \in Ipv4OptionWires :
           /\ op' = "Ipv4Packet::from_bytes"
           /\ arg' = b
           /\ ret' = Ipv4Packet_from_bytes(b)
           /\ orig' = None

Ipv4OptionRecalculateLength ==
    /\ op = "new"
    /\ \E option \in Ipv4Options :
           /\ op' = "Ipv4Option::recalculate_length"
           /\ arg' = option
           /\ ret' = Ok(Ipv4Option_recalculate_length(option))
           /\ orig' = None

NextIpv4Option == Ipv4DecodeOptions \/ Ipv4OptionRecalculateLength

SpecIpv4Option == Init /\ [][NextIpv4Option]_vars

(***************************************************************************)
(* The advanced ARP decoder on buffers that hold the four addresses their  *)
(* length bytes announce, and a few bytes more.                            *)
(***************************************************************************)
ArpHardwareLens == {0, 1, 6, 16, 100, 123, 124, 128, 255}

ArpProtocolLens == {0, 1, 4, 16, 120, 255}

ArpSizedWires ==
    { ArpPrologue(6, 2048, h, q, 1) \o Pattern(2 * h + 2 * q + extra, 40) :
          h \in ArpHardwareLens, q \in ArpProtocolLens, extra \in {0, 1, 3} }

ArpDecodeSized ==
    /\ op = "new"
    /\ \E b \in ArpSizedWires, build \in Builds :
           /\ op' = "ArpPacket::from_bytes (advanced)"
           /\ arg' = b
           /\ ret' = ArpPacket_from_bytes_advanced(build, b)
           /\ orig' = None

NextArpAdvanced == ArpDecodeSized \/ ArpDecodeAdvanced

SpecArpAdvanced == Init /\ [][NextArpAdvanced]_vars

(***************************************************************************)
(* The loops of the decoders, one iteration at a time.  A loop that runs   *)
(* is the record of its cursor i, what it has pushed so far, the           *)
(* next_header it looks at (IPv6) and the number n of iterations done; an  *)
(* iteration gives the loop after it, the result the loop ends with, or    *)
(* the panic it ends in.                                                   *)
(***************************************************************************)
Running(i, acc, next_header, n) ==
    [status |-> "running", i |-> i, acc |-> acc, next_header |-> next_header,
     n |-> n]

\* an iteration that pushes the option whatever its length byte is
TcpOptionsIteration_unchecked(bytes, data_offset, st) ==
    IF ~(st.i < data_offset) THEN Ok(st.acc)
    ELSE IF st.i >= Len(bytes) THEN PanicIndex
    ELSE IF At(bytes, st.i) = 0 THEN Ok(st.acc)
    ELSE IF At(bytes, st.i) = 1 THEN Running(st.i + 1, st.acc, 0, st.n + 1)
    ELSE IF st.i + 1 >= Len(bytes) THEN PanicIndex
    ELSE IF ~InRange(bytes, st.i, st.i + At(bytes, st.i + 1)) THEN PanicIndex
    ELSE Running(st.i + At(bytes, st.i + 1),
                 Append(st.acc, [kind |-> At(bytes, st.i),
                                 length |-> At(bytes, st.i + 1),
                                 data |-> <<>>]),
                 0, st.n + 1)

\* the while loop of TcpPacket::from_bytes: the test and one run of the body
TcpOptionsIteration(bytes, data_offset, st) ==
    IF ~(st.i < data_offset) THEN Ok(st.acc)
    ELSE IF st.i >= Len(bytes) THEN PanicIndex
    ELSE IF At(bytes, st.i) = 0 THEN Ok(st.acc)
    ELSE IF At(bytes, st.i) = 1 THEN Running(st.i + 1, st.acc, 0, st.n + 1)
    ELSE IF st.i + 1 >= Len(bytes) THEN PanicIndex
    ELSE IF ~InRange(bytes, st.i, st.i + At(bytes, st.i + 1)) THEN PanicIndex
    ELSE LET option == TcpOption_from_bytes(
                           Slice(bytes, st.i, st.i + At(bytes, st.i + 1)))
         IN  IF ~IsOk(option) THEN option
             ELSE Running(st.i + At(bytes, st.i + 1),
                          Append(st.acc, option.val), 0, st.n + 1)

\* the while loop of Ipv4Packet::from_bytes: the test and one run of the body
Ipv4OptionsIteration(bytes, header_len, st) ==
    IF ~(st.i < header_len) THEN Ok(st.acc)
    ELSE IF st.i >= Len(bytes) THEN PanicIndex
    ELSE IF At(bytes, st.i) = 0 THEN Ok(st.acc)
    ELSE IF At(bytes, st.i) = 1 THEN Running(st.i + 1, st.acc, 0, st.n + 1)
    ELSE IF st.i + 1 >= Len(bytes) THEN PanicIndex
    ELSE IF ~InRange(bytes, st.i, st.i + 2 + At(bytes, st.i + 1)) THEN PanicIndex
    ELSE LET option == Ipv4Option_from_bytes(
                           Slice(bytes, st.i, st.i + 2 + At(bytes, st.i + 1)))
         IN  IF ~IsOk(option) THEN option
             ELSE Running(st.i + At(bytes, st.i + 1) + 2,
                          Append(st.acc, option.val), 0, st.n + 1)

\* the while loop over the options of a HopByHopOptions or
\* DestinationOptions header: the test and one run of the body; the cursor
\* is j
Ipv6OptionsIteration(data, length, st) ==
    IF ~(st.i < length) THEN Ok(st.acc)
    ELSE IF At(data, st.i) = 0
         THEN Running(st.i + 1, Append(st.acc, [kind |-> 0, data |-> <<>>]),
                      0, st.n + 1)
    ELSE IF st.i + 1 >= Len(data) THEN PanicIndex
    ELSE IF ~InRange(data, st.i + 2, st.i + 2 + At(data, st.i + 1))
         THEN PanicIndex
    ELSE Running(st.i + 2 + At(data, st.i + 1),
                 Append(st.acc,
                        [kind |-> At(data, st.i),
                         data |-> Slice(data, st.i + 2,
                                        st.i + 2 + At(data, st.i + 1))]),
                 0, st.n + 1)

\* the loop of Ipv6Packet::from_bytes: one run of the match
Ipv6ExtensionIteration(bytes, st) ==
    IF st.next_header \in {0, 43, 44, 60, 135}
    THEN LET h == CASE st.next_header = 0 ->
                         Ipv6OptionsHeader(bytes, st.i, "HopByHopOptions")
                    [] st.next_header = 43 ->
                         Ipv6PayloadHeader(bytes, st.i, "Routing")
                    [] st.next_header = 44 ->
                         Ipv6FragmentHeader(bytes, st.i)
                    [] st.next_header = 60 ->
                         Ipv6OptionsHeader(bytes, st.i, "DestinationOptions")
                    [] st.next_header = 135 ->
                         Ipv6PayloadHeader(bytes, st.i, "Mobility")
         IN  IF ~IsOk(h) THEN h
             ELSE Running(h.val.i, Append(st.acc, h.val.header),
                          h.val.header.next_header, st.n + 1)
    ELSE IF ~InRange(bytes, st.i, Len(bytes)) THEN PanicIndex
    ELSE Ok([extension_headers |-> st.acc,
             payload |-> Slice(bytes, st.i, Len(bytes))])

\* bytes after a 20-byte header: end of list, no-operation, option kinds,
\* and the length bytes 0, 1, 2, 3
LoopTails == SeqsUpTo({0, 1, 2, 3}, MaxTail)

\* TcpPacket::from_bytes up to `let mut i = 20usize;`, entered with more
\* than 20 bytes
TcpLoopStart ==
    /\ op = "new"
    /\ \E d \in {5, 6, 7, 15}, t \in LoopTails \ {<<>>} :
           /\ op' = "TcpPacket::from_bytes options loop"
           /\ arg' = TcpHeader(d, 0) \o t
           /\ ret' = Running(20, <<>>, 0, 0)
           /\ orig' = None

TcpLoopStep ==
    /\ op = "TcpPacket::from_bytes options loop"
    /\ ret.status = "running"
    /\ ret' = TcpOptionsIteration(arg, Shr(At(arg, 12), 4) * 4, ret)
    /\ UNCHANGED <<op, arg, orig>>

\* Ipv4Packet::from_bytes up to `let mut i = 20usize;`, entered with a
\* header_len above 20
Ipv4LoopStart ==
    /\ op = "new"
    /\ \E l \in {6, 7, 15}, t \in LoopTails :
           /\ op' = "Ipv4Packet::from_bytes options loop"
           /\ arg' = Ipv4Header(4, l) \o t
           /\ ret' = Running(20, <<>>, 0, 0)
           /\ orig' = None

Ipv4LoopStep ==
    /\ op = "Ipv4Packet::from_bytes options loop"
    /\ ret.status = "running"
    /\ ret' = Ipv4OptionsIteration(arg, BitAnd(At(arg, 0), 15) * 4, ret)
    /\ UNCHANGED <<op, arg, orig>>

\* the 6 bytes of options of an 8-byte options header: pad bytes, and
\* options with the length bytes 0, 1, 4
Ipv6OptionData == [1..6 -> {0, 1, 4}]

\* `let mut j = 0usize;` with data the bytes of the options
Ipv6OptionsLoopStart ==
    /\ op = "new"
    /\ \E data \in Ipv6OptionData :
           /\ op' = "Ipv6Packet::from_bytes nested options loop"
           /\ arg' = data
           /\ ret' = Running(0, <<>>, 0, 0)
           /\ orig' = None

Ipv6OptionsLoopStep ==
    /\ op = "Ipv6Packet::from_bytes nested options loop"
    /\ ret.status = "running"
    /\ ret' = Ipv6OptionsIteration(arg, Len(arg), ret)
    /\ UNCHANGED <<op, arg, orig>>

\* the buffers of the decoder's run that reach its loop: 40 bytes or more,
\* version 6, DSCP and ECN bits of a variant
Ipv6LoopWires ==
    { b \in Wires(Ipv6Headers) \cup Ipv6WellFormed :
          /\ Len(b) >= 40
          /\ Ipv6Packet_from_bytes(b) \notin {PanicVersion, PanicValue} }

\* Ipv6Packet::from_bytes up to `let mut i = 40usize;`
Ipv6LoopStart ==
    /\ op = "new"
    /\ \E b \in Ipv6LoopWires :
           /\ op' = "Ipv6Packet::from_bytes extension loop"
           /\ arg' = b
           /\ ret' = Running(40, <<>>, At(b, 6), 0)
           /\ orig' = None

Ipv6LoopStep ==
    /\ op = "Ipv6Packet::from_bytes extension loop"
    /\ ret.status = "running"
    /\ ret' = Ipv6ExtensionIteration(arg, ret)
    /\ UNCHANGED <<op, arg, orig>>

LoopStep == TcpLoopStep \/ Ipv4LoopStep \/ Ipv6OptionsLoopStep \/ Ipv6LoopStep

NextLoops ==
    \/ TcpLoopStart
    \/ Ipv4LoopStart
    \/ Ipv6OptionsLoopStart
    \/ Ipv6LoopStart
    \/ TcpLoopStep
    \/ Ipv4LoopStep
    \/ Ipv6OptionsLoopStep
    \/ Ipv6LoopStep

\* a decoder that has entered a loop goes on running: nothing else is
\* scheduled and nothing can stop it
SpecLoops == Init /\ [][NextLoops]_vars /\ WF_vars(LoopStep)

(***************************************************************************)
(* Every recalculate operation called on a new packet, and called again    *)
(* where the first call returned.                                          *)
(***************************************************************************)
NextRecalculate ==
    \/ Ipv4Build
    \/ Ipv4RecalculateLengths
    \/ Ipv4RecalculateChecksum
    \/ Ipv6Build
    \/ Ipv6RecalculateAll
    \/ Ipv6RecalculateAllAgain
    \/ TcpBuild
    \/ TcpRecalculateAll
    \/ TcpRecalculateAllAgain
    \/ UdpBuild
    \/ UdpRecalculateAll
    \/ UdpRecalculateAllAgain

SpecRecalculate == Init /\ [][NextRecalculate]_vars

(***************************************************************************)
(* RFC 1071 in closed form: the one's complement sum of the 16-bit words   *)
(* of a buffer is the integer sum of the words reduced to 1..65535 modulo  *)
(* 65535 (0 only for a sum of 0); a byte at an even offset is the high     *)
(* byte of its word, and the missing last byte of an odd buffer counts 0.  *)
(***************************************************************************)
RECURSIVE WordTotal(_, _)
WordTotal(bytes, i) ==
    IF i > Len(bytes) THEN 0
    ELSE bytes[i] * (IF i % 2 = 1 THEN 256 ELSE 1) + WordTotal(bytes, i + 1)

OnesComplementSum(bytes) ==
    LET total == WordTotal(bytes, 1)
    IN  IF total = 0 THEN 0 ELSE ((total - 1) % 65535) + 1

InternetChecksum(bytes) == 65535 - OnesComplementSum(bytes)

\* C1: for every byte sequence, checksum returns the Internet checksum of
\* RFC 1071: the one's complement of the one's complement sum of its 16-bit
\* big-endian words, an odd buffer padded with one zero byte.
C1_ChecksumIsInternetChecksum ==
    op = "checksum" => ret = Ok(InternetChecksum(arg))

\* an odd buffer whose sum needs a second fold
C1_Witness ==
    /\ op = "checksum"
    /\ Len(arg) % 2 = 1
    /\ Above16(FoldOnce(SumWords(PadEven(arg), U32(0, 0))))

\* C2: once the checksum of a buffer, computed with its checksum field
\* (16 bits at an even offset) zero, is stored big-endian in that field, the
\* checksum of the whole buffer is 0x0000.
C2_ComplementProperty ==
    op = "verify_checksum" => ret = Ok(0)

\* an odd buffer verified after a checksum with a carry was stored in it
C2_Witness ==
    /\ op = "verify_checksum"
    /\ Len(arg) % 2 = 1
    /\ Above16(SumWords(PadEven(orig.val), U32(0, 0)))
    /\ arg # orig.val

(***************************************************************************)
(* Decoding buffers that are too short or lie about their lengths.         *)
(***************************************************************************)
\* C3: for every input buffer, every index and every length-derived slice
\* that Ipv4Packet::from_bytes, TcpPacket::from_bytes, Ipv6Packet::from_bytes
\* and ArpPacket::from_bytes take is within the buffer: no decoding ends in
\* an out-of-bounds index or slice.
C3_NoReadPastEnd ==
    op \in {"Ipv4Packet::from_bytes", "TcpPacket::from_bytes",
            "Ipv6Packet::from_bytes", "ArpPacket::from_bytes (fixed)",
            "ArpPacket::from_bytes (advanced)"}
        => ret # PanicIndex

\* the minimum fixed header size of each protocol type
MinHeaderSize ==
    [d \in {"EthernetPacket::from_bytes", "ArpPacket::from_bytes (fixed)",
            "ArpPacket::from_bytes (advanced)", "Ipv4Packet::from_bytes",
            "Ipv6Packet::from_bytes", "TcpPacket::from_bytes",
            "UdpPacket::from_bytes"} |->
        CASE d = "EthernetPacket::from_bytes" -> 14
          [] d = "ArpPacket::from_bytes (fixed)" -> 28
          [] d = "ArpPacket::from_bytes (advanced)" -> 8
          [] d = "Ipv4Packet::from_bytes" -> 20
          [] d = "Ipv6Packet::from_bytes" -> 40
          [] d = "TcpPacket::from_bytes" -> 20
          [] d = "UdpPacket::from_bytes" -> 8]

\* C4: for every protocol type, decoding a buffer one byte shorter than the
\* minimum fixed header size fails with the length error of an explicit
\* length check, never with an out-of-bounds index; a buffer that an
\* explicit check rejects for its version or for a field value is set aside.
C4_ShortBufferLengthError ==
    (/\ op \in DOMAIN MinHeaderSize
     /\ Len(arg) = MinHeaderSize[op] - 1
     /\ ret \notin {PanicVersion, PanicValue})
        => ret = PanicLength

(***************************************************************************)
(* TCP round trip.                                                         *)
(***************************************************************************)
RECURSIVE OptionBytes(_)
\* the bytes a list of well-formed options takes
OptionBytes(options) ==
    IF options = <<>> THEN 0
    ELSE 2 + Len(Head(options).data) + OptionBytes(Tail(options))

\* a structurally valid TcpPacket
TcpValid(x) ==
    /\ \A k \in 1..Len(x.options) :
          /\ x.options[k].kind \notin {0, 1}
          /\ x.options[k].length = 2 + Len(x.options[k].data)
    /\ x.data_offset = 4 * ((20 + OptionBytes(x.options) + 3) \div 4)
    /\ x.data_offset <= 60

\* C5: decoding the encoding of a structurally valid TcpPacket gives the
\* packet back, field for field.
C5_TcpRoundTrip ==
    (op = "TcpPacket::from_bytes" /\ orig.status = "ok" /\ TcpValid(orig.val))
        => ret = Ok(orig.val)

\* a valid packet with two options, padding and a payload was decoded
C5_Witness ==
    /\ op = "TcpPacket::from_bytes"
    /\ orig.status = "ok"
    /\ TcpValid(orig.val)
    /\ Len(orig.val.options) = 2
    /\ OptionBytes(orig.val.options) % 4 = 1
    /\ orig.val.payload # <<>>
    /\ orig.val.flags.nonce_sum
    /\ IsOk(ret)

(***************************************************************************)
(* IPv4 round trip.                                                        *)
(***************************************************************************)
\* a structurally valid Ipv4Packet
Ipv4Valid(x) ==
    /\ x.fragment_offset % 8 = 0
    /\ x.fragment_offset < 65536
    /\ \A k \in 1..Len(x.options) :
          x.options[k].length = 2 + Len(x.options[k].data)
    /\ x.header_len = 4 * ((20 + OptionBytes(x.options) + 3) \div 4)
    /\ x.total_len = x.header_len + Len(x.payload)

\* C6: decoding the encoding of a structurally valid Ipv4Packet gives the
\* packet back, field for field: to_bytes returns a buffer, and from_bytes
\* of that buffer is the packet.
C6_Ipv4RoundTrip ==
    (op = "Ipv4Packet::to_bytes" /\ Ipv4Valid(arg))
        => (IsOk(ret) /\ Ipv4Packet_from_bytes(ret.val) = Ok(arg))

(***************************************************************************)
(* IPv6 round trip.                                                        *)
(***************************************************************************)
\* C7: for every well-formed IPv6 buffer (a legal DSCP value, a chain of
\* correctly sized, 8-byte-aligned extension headers of any of the five
\* kinds), encoding the decoded packet gives the buffer back.
C7_Ipv6RoundTrip ==
    (op = "Ipv6Packet::to_bytes" /\ orig.status = "ok"
        /\ orig.val \in Ipv6WellFormed)
        => ret = Ok(orig.val)

(***************************************************************************)
(* ARP, the feature off.                                                   *)
(***************************************************************************)
\* the operation codes of RFC 826 and RFC 903
ArpOperationCode ==
    [v \in {"Request", "Reply", "RarpRequest", "RarpReply"} |->
        CASE v = "Request" -> 1
          [] v = "Reply" -> 2
          [] v = "RarpRequest" -> 3
          [] v = "RarpReply" -> 4]

\* the 28 bytes of an Ethernet/IPv4 ARP packet
ArpWire(x) ==
    <<0, 1, 8, 0, 6, 4, 0, ArpOperationCode[x.operation.variant]>>
        \o x.sender_mac.bytes \o x.sender_ip \o x.target_mac.bytes \o x.target_ip

\* C8: for every ArpPacket, header_to_bytes() and to_bytes() yield exactly
\* 28 bytes: 00 01 08 00 06 04, the operation as a big-endian u16, then the
\* sender MAC, the sender IPv4 address, the target MAC and the target IPv4
\* address, with no padding; and from_bytes of that output is the packet.
C8_ArpFixedEncoding ==
    /\ op \in {"ArpPacket::header_to_bytes", "ArpPacket::to_bytes"}
          => (ret = Ok(ArpWire(arg)) /\ Len(ret.val) = 28)
    /\ (op = "ArpPacket::from_bytes (fixed)" /\ orig.status = "ok")
          => ret = Ok(orig.val)

\* the scenario of the specification went out and came back: a request of
\* aa:bb:cc:dd:ee:ff at 192.168.1.1 for 192.168.1.2
C8_Witness ==
    /\ op = "ArpPacket::from_bytes (fixed)"
    /\ orig.status = "ok"
    /\ arg = <<0, 1, 8, 0, 6, 4, 0, 1, 170, 187, 204, 221, 238, 255,
               192, 168, 1, 1, 0, 0, 0, 0, 0, 0, 192, 168, 1, 2>>
    /\ ret = Ok([operation |-> ArpOperation("Request"),
                 sender_mac |-> [bytes |-> <<170, 187, 204, 221, 238, 255>>],
                 sender_ip |-> <<192, 168, 1, 1>>,
                 target_mac |-> [bytes |-> <<0, 0, 0, 0, 0, 0>>],
                 target_ip |-> <<192, 168, 1, 2>>])

(***************************************************************************)
(* Ethernet.                                                               *)
(***************************************************************************)
\* C9: decoding an Ethernet frame fails exactly when the buffer is shorter
\* than 14 bytes; every buffer of 14 bytes or more decodes to the first 6
\* bytes as destination, the next 6 as source, bytes 12 and 13 as the
\* big-endian protocol and the bytes from 14 on as payload.
C9_EthernetDecode ==
    op = "EthernetPacket::from_bytes" =>
        IF Len(arg) < 14 THEN ~IsOk(ret)
        ELSE ret = Ok([destination |-> [bytes |-> SubSeq(arg, 1, 6)],
                       source |-> [bytes |-> SubSeq(arg, 7, 12)],
                       protocol |-> arg[13] * 256 + arg[14],
                       payload |-> SubSeq(arg, 15, Len(arg))])

(***************************************************************************)
(* Padding of the IPv4 and TCP headers.                                    *)
(***************************************************************************)
\* the padding of a header: empty, or NOP bytes and one final EOL byte
IsPadding(pad) ==
    \/ pad = <<>>
    \/ /\ pad[Len(pad)] = 0
       /\ \A i \in 1..(Len(pad) - 1) : pad[i] = 1

\* C10: for every Ipv4Packet and every TcpPacket, with any list of options,
\* header_to_bytes() returns a byte sequence whose length is a multiple of
\* 4, and what it adds after the 20 fixed bytes and the options is NOP bytes
\* followed by exactly one final EOL byte.
C10_HeaderPadding ==
    op \in {"Ipv4Packet::header_to_bytes", "TcpPacket::header_to_bytes"} =>
        /\ IsOk(ret)
        /\ Len(ret.val) % 4 = 0
        /\ Len(ret.val) - (20 + OptionBytes(arg.options)) \in 0..3
        /\ IsPadding(SubSeq(ret.val, 20 + OptionBytes(arg.options) + 1,
                            Len(ret.val)))

(***************************************************************************)
(* Size of an encoded IPv6 extension header.                               *)
(***************************************************************************)
\* C11: for every Ipv6ExtensionHeader of every variant, with any options or
\* payload, to_bytes() returns a byte sequence whose length is a multiple of
\* 8, and exactly 8 for the Fragment variant.
C11_ExtensionHeaderSize ==
    op = "Ipv6ExtensionHeader::to_bytes" =>
        /\ IsOk(ret)
        /\ Len(ret.val) % 8 = 0
        /\ arg.type = "Fragment" => Len(ret.val) = 8

(***************************************************************************)
(* The IPv4 header checksum.                                               *)
(***************************************************************************)
\* the header of RFC 791 with a checksum field of zero
Ipv4HeaderZeroChecksum(x) ==
    PadHeader(
        <<64 + ((x.header_len \div 4) % 16), x.tos,
          x.total_len \div 256, x.total_len % 256, x.id \div 256, x.id % 256,
          BoolU8(x.dont_fragment) * 64 + BoolU8(x.more_fragments) * 32
              + ((x.fragment_offset \div 2048) % 32),
          (x.fragment_offset \div 8) % 256,
          x.ttl, x.protocol, 0, 0>>
        \o x.source \o x.destination
        \o Concat([k \in 1..Len(x.options) |-> Ipv4Option_to_bytes(x.options[k])]))

\* C12: Ipv4Packet::recalculate_checksum sets checksum to the Internet
\* checksum of the encoded header taken with the checksum field zeroed,
\* whatever the checksum field held before the call.
C12_Ipv4Checksum ==
    op = "Ipv4Packet::recalculate_checksum" =>
        ret = Ok([arg EXCEPT !.checksum =
                     InternetChecksum(Ipv4HeaderZeroChecksum(arg))])

(***************************************************************************)
(* Dispatch of an IPv4 payload to the next level.                          *)
(***************************************************************************)
\* C15: Ipv4Packet::get_next_level_packet returns the TCP variant when
\* protocol is 6 and the UDP variant when it is 17 (the payload decoded, if
\* it decodes), and for every other protocol value it returns a result, not
\* a panic.
C15_Ipv4NextLevel ==
    op = "Ipv4Packet::get_next_level_packet" =>
        /\ (arg.protocol = 6 /\ IsOk(TcpPacket_from_bytes(arg.payload)))
              => ret = Ok([variant |-> "Tcp",
                           packet |-> TcpPacket_from_bytes(arg.payload).val])
        /\ (arg.protocol = 17 /\ IsOk(UdpPacket_from_bytes(arg.payload)))
              => ret = Ok([variant |-> "Udp",
                           packet |-> UdpPacket_from_bytes(arg.payload).val])
        /\ arg.protocol \notin {6, 17} => IsOk(ret)

(***************************************************************************)
(* Dispatch of an IPv6 payload to the next level.                          *)
(***************************************************************************)
\* the upper-layer protocol of a packet: the next-header byte of the last
\* extension header, or that of the packet if it has none
Ipv6UpperProtocol(x) ==
    IF x.extension_headers = <<>> THEN x.next_header
    ELSE x.extension_headers[Len(x.extension_headers)].next_header

\* C16: Ipv6Packet::get_next_level_packet takes the upper-layer protocol
\* from the last extension header, or from the packet when it has none,
\* returns TCP for 6, UDP for 17 and Unimplemented(raw payload) otherwise,
\* and fails for no packet and no payload length.
C16_Ipv6NextLevel ==
    op = "Ipv6Packet::get_next_level_packet" =>
        /\ IsOk(ret)
        /\ ret.val.variant =
               CASE Ipv6UpperProtocol(arg) = 6 -> "Tcp"
                 [] Ipv6UpperProtocol(arg) = 17 -> "Udp"
                 [] OTHER -> "Unimplemented"
        /\ ret.val.variant = "Unimplemented" => ret.val.bytes = arg.payload

(***************************************************************************)
(* The next_header field of an IPv6 packet.                                *)
(***************************************************************************)
\* the protocol numbers of the extension headers (RFC 8200, RFC 6275)
Ipv6TypeCode ==
    [t \in {"HopByHopOptions", "Routing", "Fragment", "DestinationOptions",
            "Mobility"} |->
        CASE t = "HopByHopOptions" -> 0
          [] t = "Routing" -> 43
          [] t = "Fragment" -> 44
          [] t = "DestinationOptions" -> 60
          [] t = "Mobility" -> 135]

\* C20: Ipv6Packet::recalculate_next_header and recalculate_all complete on
\* any packet, and afterwards next_header is the type code of the first
\* extension header if there is one, and otherwise the upper-layer protocol
\* number it held before the call.
C20_Ipv6NextHeader ==
    (op \in {"Ipv6Packet::recalculate_next_header", "Ipv6Packet::recalculate_all"}
        /\ orig = None)
        => /\ IsOk(ret)
           /\ ret.val.next_header =
                  IF arg.extension_headers # <<>>
                  THEN Ipv6TypeCode[arg.extension_headers[1].type]
                  ELSE arg.next_header

\* the pseudo-header of a TCP segment and the segment with its checksum
\* field, bytes 16-17, zeroed
TcpPseudoSegment(source_ip, destination_ip, segment) ==
    source_ip \o destination_ip \o <<0, 6>>
        \o <<Len(segment) \div 256, Len(segment) % 256>>
        \o [k \in 1..Len(segment) |-> IF k \in {17, 18} THEN 0 ELSE segment[k]]

\* C19: after TcpPacket::recalculate_all(src, dst) on a packet whose padded
\* header is at most 60 bytes, every option's length is 2 + the length of
\* its data, data_offset is the length of the encoded header, and the
\* checksum is the Internet checksum of the pseudo-header followed by the
\* packet as encoded with the new lengths and data_offset and a zero
\* checksum field; nothing else changed.
C19_TcpRecalculateAll ==
    (/\ op = "TcpPacket::recalculate_all"
     /\ orig = None
     /\ 4 * ((20 + OptionBytes(arg.packet.options) + 3) \div 4) <= 60)
        => /\ IsOk(ret)
           /\ Len(ret.val.options) = Len(arg.packet.options)
           /\ \A k \in 1..Len(ret.val.options) :
                 ret.val.options[k] =
                     [arg.packet.options[k] EXCEPT
                         !.length = 2 + Len(arg.packet.options[k].data)]
           /\ IsOk(TcpPacket_header_to_bytes(ret.val))
           /\ ret.val.data_offset = Len(TcpPacket_header_to_bytes(ret.val).val)
           /\ ret.val.data_offset =
                  4 * ((20 + OptionBytes(arg.packet.options) + 3) \div 4)
           /\ ret.val.checksum =
                  InternetChecksum(
                      TcpPseudoSegment(arg.source_ip, arg.destination_ip,
                                       TcpPacket_to_bytes(ret.val).val))
           /\ ret.val = [arg.packet EXCEPT !.options = ret.val.options,
                                           !.data_offset = ret.val.data_offset,
                                           !.checksum = ret.val.checksum]

\* a packet with a stale option length, a stale data_offset, options that
\* need padding and a payload was recalculated
C19_Witness ==
    /\ op = "TcpPacket::recalculate_all"
    /\ orig = None
    /\ IsOk(ret)
    /\ Len(arg.packet.options) = 2
    /\ \E k \in 1..2 :
          arg.packet.options[k].length # 2 + Len(arg.packet.options[k].data)
    /\ OptionBytes(arg.packet.options) % 4 # 0
    /\ arg.packet.payload # <<>>
    /\ arg.packet.data_offset # ret.val.data_offset
    /\ ret.val.data_offset = 28
    /\ ret.val.checksum # arg.packet.checksum

\* C14: UdpPacket::recalculate_checksum with a source and a destination of
\* different address families, in either order, ends in the invalid-argument
\* failure and the packet is as it was, its checksum field included: no
\* checksum of mismatched addresses is stored.
C14_UdpFamilyMismatch ==
    (/\ op = "UdpPacket::recalculate_checksum"
     /\ arg.source_ip.family # arg.destination_ip.family)
        => /\ ret = PanicArgument
           /\ orig = Ok(arg.packet)
           /\ orig.val.checksum = arg.packet.checksum

\* the call with an IPv4 source and an IPv6 destination, on a packet
\* holding a checksum, failed
C14_Witness ==
    /\ op = "UdpPacket::recalculate_checksum"
    /\ arg.source_ip.family = "V4"
    /\ arg.destination_ip.family = "V6"
    /\ arg.packet.checksum = 43981
    /\ arg.packet.payload # <<>>
    /\ ret = PanicArgument

\* the recalculate operations of the packet types
RecalculateOperations ==
    {"Ipv4Packet::recalculate_lengths", "Ipv4Packet::recalculate_checksum",
     "Ipv6Packet::recalculate_all", "TcpPacket::recalculate_all",
     "UdpPacket::recalculate_all"}

\* C13: every recalculate operation, called on any packet with arguments it
\* accepts, leaves a packet state, and the same call repeated leaves that
\* state again.
C13_RecalculateIdempotent ==
    /\ (/\ op \in RecalculateOperations
        /\ orig = None
        /\ op = "UdpPacket::recalculate_all"
               => arg.source_ip.family = arg.destination_ip.family)
           => IsOk(ret)
    /\ (op \in {"Ipv4Packet::recalculate_lengths"} /\ IsOk(ret))
           => Ipv4Packet_recalculate_lengths(ret.val) = ret
    /\ (op \in {"Ipv4Packet::recalculate_checksum"} /\ IsOk(ret))
           => Ipv4Packet_recalculate_checksum(ret.val) = ret
    /\ (op = "Ipv6Packet::recalculate_all" /\ orig # None)
           => ret = Ok(arg)
    /\ (op \in {"TcpPacket::recalculate_all", "UdpPacket::recalculate_all"}
            /\ orig # None)
           => ret = Ok(arg.packet)

\* the DSCP code points and the ECN and option class bit patterns that
\* stand for a variant
DscpLegal == {0, 8, 16, 24, 32, 40, 46, 48, 56}

EcnLegal == {0, 1, 2, 3}

ClassLegal == {0, 1, 2, 3}

ArpModelled ==
    [fixed |-> {1, 2, 3, 4}, advanced |-> {1, 2, 3, 4, 8, 9}]

\* C18: in both ARP configurations ArpOperation::from_value returns an
\* operation for every 16-bit value, the unrecognized fallback carrying
\* the value for those that have no variant of their own, and to_value of
\* the operation is the value.
C18_ArpOperationTotal ==
    /\ op = "ArpOperation::from_value"
           => /\ IsOk(ret)
              /\ arg.value \notin ArpModelled[arg.feature]
                     => ret.val = Other(arg.value)
    /\ op = "ArpOperation::to_value"
           => ret = Ok(orig.val.value)

\* RFC 791: the options of a header of header_len bytes from offset i on
\* are well formed when each is an end of list, a no-operation, or a type
\* byte and a length byte of at least 2 that stays within the header
RECURSIVE Ipv4WireWellFormed(_, _, _)
Ipv4WireWellFormed(bytes, header_len, i) ==
    IF i >= header_len THEN i = header_len
    ELSE IF bytes[i + 1] = 0 THEN TRUE
    ELSE IF bytes[i + 1] = 1 THEN Ipv4WireWellFormed(bytes, header_len, i + 1)
    ELSE /\ i + 1 < header_len
         /\ bytes[i + 2] >= 2
         /\ i + bytes[i + 2] <= header_len
         /\ Ipv4WireWellFormed(bytes, header_len, i + bytes[i + 2])

\* the options such a header holds: the second byte is the total length
\* of the option, the first is copy, class and number
RECURSIVE Ipv4WireOptions(_, _, _)
Ipv4WireOptions(bytes, header_len, i) ==
    IF i >= header_len \/ bytes[i + 1] = 0 THEN <<>>
    ELSE IF bytes[i + 1] = 1 THEN Ipv4WireOptions(bytes, header_len, i + 1)
    ELSE << [copy |-> bytes[i + 1] >= 128,
             class |-> CASE (bytes[i + 1] \div 32) % 4 = 0 -> Control
                         [] (bytes[i + 1] \div 32) % 4 = 1 -> Reserved(FALSE)
                         [] (bytes[i + 1] \div 32) % 4 = 2 -> Debug
                         [] (bytes[i + 1] \div 32) % 4 = 3 -> Reserved(TRUE),
             number |-> bytes[i + 1] % 32,
             length |-> bytes[i + 2],
             data |-> SubSeq(bytes, i + 3, i + bytes[i + 2])] >>
         \o Ipv4WireOptions(bytes, header_len, i + bytes[i + 2])

\* C21: Ipv4Option::recalculate_length sets length to 2 + data.len(), and
\* Ipv4Packet::from_bytes of a header with well-formed options returns the
\* options of the wire, each of as many bytes as its second byte says,
\* with length = 2 + data.len() and copy, class and number unpacked from
\* bit 7, bits 6-5 and bits 4-0 of its first byte.
C21_Ipv4OptionLength ==
    /\ op = "Ipv4Option::recalculate_length"
           => ret = Ok([arg EXCEPT !.length = 2 + Len(arg.data)])
    /\ (/\ op = "Ipv4Packet::from_bytes"
        /\ Len(arg) >= 20
        /\ arg[1] \div 16 = 4
        /\ (arg[1] % 16) * 4 <= Len(arg)
        /\ Ipv4WireWellFormed(arg, (arg[1] % 16) * 4, 20))
           => /\ IsOk(ret)
              /\ ret.val.options = Ipv4WireOptions(arg, (arg[1] % 16) * 4, 20)
              /\ \A k \in 1..Len(ret.val.options) :
                    ret.val.options[k].length = 2 + Len(ret.val.options[k].data)

\* C22: the advanced ArpPacket::from_bytes, on a buffer of at least
\* 8 + 2h + 2p bytes with h = bytes[4] and p = bytes[5], returns the four
\* addresses bytes[8..8+h], bytes[8+h..8+h+p], bytes[8+h+p..8+2h+p] and
\* bytes[8+2h+p..8+2h+2p], of h, p, h and p bytes, whatever h and p are.
C22_ArpAdvancedSlices ==
    (/\ op = "ArpPacket::from_bytes (advanced)"
     /\ Len(arg) >= 8
     /\ Len(arg) >= 8 + 2 * arg[5] + 2 * arg[6])
        => LET h == arg[5]
               p == arg[6]
           IN  /\ IsOk(ret)
               /\ ret.val.hardware_addr_len = h
               /\ ret.val.protocol_addr_len = p
               /\ ret.val.sender_hardware_addr = SubSeq(arg, 9, 8 + h)
               /\ ret.val.sender_protocol_addr = SubSeq(arg, 9 + h, 8 + h + p)
               /\ ret.val.target_hardware_addr =
                      SubSeq(arg, 9 + h + p, 8 + 2 * h + p)
               /\ ret.val.target_protocol_addr =
                      SubSeq(arg, 9 + 2 * h + p, 8 + 2 * h + 2 * p)

\* C23: every loop of the decoders moves its cursor forward by at least one
\* byte in each iteration, has done no more iterations than the buffer has
\* bytes, and ends, with a result or a failure.
C23_DecodeTerminates ==
    /\ [](ret.status = "running" => ret.n <= Len(arg))
    /\ [][(ret.status = "running" /\ ret'.status = "running")
              => (ret'.i >= ret.i + 1 /\ ret'.n = ret.n + 1)]_vars
    /\ (ret.status = "running") ~> (ret.status # "running")

\* the TCP loop skipped a no-operation, met an option with the length byte
\* 0 inside the buffer and ended
C23_Witness ==
    /\ op = "TcpPacket::from_bytes options loop"
    /\ Len(arg) = 24
    /\ arg[13] = 96
    /\ arg[21] = 1
    /\ arg[22] = 2
    /\ arg[23] = 0
    /\ ret.status # "running"

\* C24: for a HopByHopOptions, Routing, DestinationOptions or Mobility
\* header to_bytes() returns, without underflow, a block whose byte 1 is
\* its length in 8-byte units less one, and the decoder, reading that
\* block as a header of this type, takes the header that follows at the
\* end of the block.
C24_ExtensionLengthByte ==
    (op = "Ipv6ExtensionHeader::to_bytes" /\ arg.type # "Fragment")
        => /\ IsOk(ret)
           /\ Len(ret.val) >= 2
           /\ (ret.val[2] + 1) * 8 = Len(ret.val)
           /\ LET after == Ipv6ExtensionIteration(
                               Ipv6Header(6, 0, 0, Ipv6TypeCode[arg.type])
                                   \o ret.val,
                               Running(40, <<>>, Ipv6TypeCode[arg.type], 0))
              IN  /\ after.status = "running"
                  /\ after.i = 40 + Len(ret.val)

\* the header length a TCP segment or an IPv4 packet announces, in bytes
WireHeaderLength(name, bytes) ==
    IF name = "TcpPacket::from_bytes" THEN (bytes[13] \div 16) * 4
    ELSE (bytes[1] % 16) * 4

\* C25: when TcpPacket::from_bytes or Ipv4Packet::from_bytes returns a
\* packet, the header length of the wire is at least 20, the payload is the
\* bytes from that length on, and so it holds none of the first 20 bytes.
C25_PayloadAfterHeader ==
    (op \in {"TcpPacket::from_bytes", "Ipv4Packet::from_bytes"} /\ IsOk(ret))
        => /\ WireHeaderLength(op, arg) >= 20
           /\ ret.val.payload =
                  SubSeq(arg, WireHeaderLength(op, arg) + 1, Len(arg))
           /\ Len(ret.val.payload) <= Len(arg) - 20

====
